---- MODULE Spec2Model ----
(***************************************************************************)
(* A model of strapto-server's peer session manager (WebRTCManager,        *)
(* src/strapto_server/webrtc_manager.py), of its event bus (EventEmitter,  *)
(* src/strapto_server/event_handler.py), of the start and shutdown of the  *)
(* server (StrapToServer, src/strapto_server/main.py), of the offer        *)
(* and reset routes (src/strapto_server/routes/api.py), of the model       *)
(* interface (OllamaInterface, src/strapto_server/model_interface.py) and  *)
(* of the helpers RateLimiter, retry_async and cancel_tasks                *)
(* (src/strapto_server/utils.py).                                          *)
(*                                                                         *)
(* The server is one asyncio event loop.  Every coroutine runs without     *)
(* interruption up to its next `await` on the transport engine or on a     *)
(* user handler; there it may be suspended and any other task may run.     *)
(* An action of this model is one such uninterrupted piece of a method:    *)
(* the call up to the first await, or the resumption from one await to the *)
(* next.  The transport engine (aiortc) and the user handlers are not part *)
(* of the repository: each of their calls may return or raise.             *)
(***************************************************************************)
EXTENDS Integers, Sequences, FiniteSets, TLC

\* ----------------------------------------------------------------- bounds
MaxCalls  == 4     \* calls made on the WebRTCManager and its bus in one run
MaxConns  == 2     \* RTCPeerConnection objects created in one run
MaxEvents == 2     \* events published on a bus in one run
MaxSubs   == 4     \* subscription changes made on an EventEmitter in one run

MaxPeers  == 2     \* peer ids used in one run
MaxCands  == 2     \* ICE candidates submitted in one run

\* Peer ids and candidates are named by the order of their first use: peer 1
\* is the first id a call names, candidate 1 the first one submitted.
PeerIds  == 1..MaxPeers
Cands    == 1..MaxCands
Slots    == {1, 2}          \* coroutines suspended at an await at one time
Handles  == 1..MaxConns
NoPeer   == 0

\* The one listener WebRTCManager.__init__ registers, and the handlers a
\* user of the bus registers.
Fanout       == "handle_model_output"
ListenerFns  == {"h1", "h2"}
ErrorFns     == {"g1", "g2"}
BusTypes     == {"t1", "t2"}
EventTypes   == BusTypes \cup {"model_output", "consumer_message"}
Reasons      == {"r1"}           \* str(e) of what a handler raises

VARIABLES
    \* WebRTCManager.peers: a dict.  `entries` is its entry array in insertion
    \* order (a deleted key leaves a hole), `peers[p]` the PeerInfo stored
    \* under p, named by its connection handle (0: p is not a key).
    entries, peers,
    nconn,             \* RTCPeerConnection objects created so far
    data_channel,      \* PeerInfo.data_channel, by session: a channel or 0
    ice_candidates,    \* PeerInfo.ice_candidates, by session: a Python set
    metrics,           \* PeerInfo.metrics, by session: the four counters
    close_tasks,       \* close_all_connections: the coroutines given to gather
    server,            \* StrapToServer
    utils,             \* the helpers of utils.py: a RateLimiter, a retry_async call
    created_for,       \* the peer_id a connection's callbacks are bound to
    \* transport engine, by connection handle
    connectionState,   \* pc.connectionState: "new" | "failed" | "closed"
    iceConnectionState, \* pc.iceConnectionState: "new" | "failed"
    remoteDescription, \* whether pc.remoteDescription is set
    localDescription,  \* "none" | "offer" | "answer"
    setRemoteCalls,    \* calls of pc.setRemoteDescription
    added,             \* candidates passed to pc.addIceCandidate, in order
    closeCalls,        \* calls of pc.close
    readyState,        \* the connection's data channel: "none" (no channel),
                       \* "connecting", "open", "closed"
    received,          \* what channel.send delivered, in order
    \* the event loop
    tasks,             \* the suspended coroutines
    ret,               \* the last call that returned or raised
    ncalls,            \* calls made on the WebRTCManager so far
    npeers,            \* peer ids named so far
    ncands,            \* candidates given to process_ice_candidate so far
    \* EventEmitter
    listeners, error_handlers, running,
    emits,             \* the emit calls so far: event k is emits[k]
    nsubs,             \* the subscription changes made so far
    queue,             \* _safe_handle tasks created and not yet started
    \* history
    arrived,           \* candidates buffered per session, in arrival order
    sendFailed,        \* some channel.send has raised
    fanned,            \* fanouts started so far
    openedAt,          \* `fanned` when the channel became open
    invoked,           \* <<event, handler>>: the handler was called with it
    raised,            \* what the handlers raised: [ev, hd, reason], and the
                       \* error handlers registered at that time
    delivered          \* <<error event, error handler>>: it was called with it

mgrVars == <<entries, peers, nconn, data_channel, ice_candidates,
             remoteDescription, localDescription, setRemoteCalls, added,
             closeCalls, readyState, received, ncalls, npeers, ncands,
             arrived, sendFailed, fanned, openedAt, metrics, close_tasks,
             server, utils, created_for, connectionState, iceConnectionState>>
busVars == <<listeners, error_handlers, running, emits, nsubs, queue,
             invoked, raised, delivered>>
vars == <<mgrVars, busVars, tasks, ret>>

\* ------------------------------------------------------------ coroutines
\* No RateLimiter has been constructed.
NoLimiter == [rate |-> 0, burst |-> 0, tokens |-> 0, last_update |-> 0,
              created |-> 0, calls |-> <<>>]

\* No function wrapped by retry_async has been called.
NoRetry == [max_attempts |-> 0, exceptions |-> {}, backoff |-> FALSE,
            attempt |-> 0, pc |-> "none", invoked |-> <<>>, slept |-> <<>>,
            result |-> "none"]

\* No task has been created and cancel_tasks has not been called.  state is
\* what became of each task ("none": not created), set the caller's set of
\* tasks, given what it held when cancel_tasks was called, asked the tasks
\* whose cancel() was called.
NoCancel == [pc |-> "none", set |-> {}, given |-> {}, asked |-> {},
             state |-> <<"none", "none", "none">>]

\* utils.py before any of its helpers is used; now is loop.time().
NoUtils == [now |-> 0, limiter |-> NoLimiter, retry |-> NoRetry,
            cancel |-> NoCancel]

\* No request body has been read.
NoRequest == [json |-> FALSE, fields |-> {}, type |-> "none",
              client_id |-> 0, valid |-> FALSE]

\* OllamaInterface as constructed.  watch_task is the task _watch_task refers
\* to (0: None); alive the watcher tasks created and not done, cancelled
\* those of them whose cancel() was called; queued the outputs put in
\* _output_queue; log the methods of the interface called so far.
NoModel == [ready |-> FALSE, status |-> "disconnected",
            is_connecting |-> FALSE, session |-> "none", model_name |-> FALSE,
            watching |-> FALSE, watch_task |-> 0, alive |-> {},
            cancelled |-> {}, ntasks |-> 0, queued |-> 0, log |-> <<>>]

\* StrapToServer as constructed.
NoServer == [running |-> FALSE, runner |-> FALSE, watcher |-> "none",
             start |-> "none", loop |-> "running",
             sd |-> [id \in {"SIGTERM", "SIGINT", "finally", "direct"} |->
                       "idle"],
             model_disconnects |-> 0, webrtc_disconnects |-> 0,
             logged |-> {}, request |-> NoRequest, outputs |-> <<>>,
             model |-> NoModel]

NoTask == [op |-> "idle", pc |-> "", peer |-> NoPeer, h |-> 0, ev |-> 0,
           hd |-> "", reason |-> "", owner |-> 0, seen |-> {}, used |-> 0,
           pos |-> 0, cur |-> "", failed |-> {}]

Task(op, pc, p, h) == [NoTask EXCEPT !.op = op, !.pc = pc, !.peer = p, !.h = h]

FreeSlots == {t \in Slots : tasks[t].op = "idle"}
FreeSlot  == CHOOSE t \in FreeSlots : \A u \in FreeSlots : t <= u

\* `ret` is what the step just taken returned or raised to its caller, NoRet
\* when the step ended at an await or was the engine's.
Ret(op, p, res) == [op |-> op, peer |-> p, res |-> res]
NoRet == Ret("none", NoPeer, "none")

\* len(self.peers)
Live == {p \in PeerIds : peers[p] # 0}

\* self.peers[peer_id] = PeerInfo(...): a new key is appended to the entry
\* array, an existing key keeps its place.
DictSet(p) == IF peers[p] = 0 THEN Append(entries, p) ELSE entries

\* self.peers.pop(peer_id): the entry becomes a hole.
DictDel(p) == [i \in 1..Len(entries) |->
                 IF entries[i] = p THEN NoPeer ELSE entries[i]]

dictVars == <<entries, peers, nconn>>
callVars == <<ncalls, npeers, ncands>>

\* The calls made so far, on the manager and on its bus.
Calls == ncalls + Len(emits)

\* A call names peer p: a peer id named before, or the next new one.
Names(p) ==
    /\ p <= npeers + 1
    /\ npeers' = IF p > npeers THEN p ELSE npeers
    /\ Calls < MaxCalls
    /\ ncalls' = ncalls + 1
stateVars == <<connectionState, iceConnectionState>>
engVars  == <<remoteDescription, localDescription, setRemoteCalls, added,
              closeCalls>>
chanVars == <<readyState, received>>
fanVars  == <<sendFailed, fanned, openedAt>>

\* The coroutine in slot t returns or raises `res`.
Finish(t, res) ==
    /\ tasks' = [tasks EXCEPT ![t] = NoTask]
    /\ ret' = Ret(tasks[t].op, tasks[t].peer, res)

\* The coroutine in slot t is suspended at its next await.
Suspend(t, rec) ==
    /\ tasks' = [tasks EXCEPT ![t] = rec]
    /\ ret' = NoRet

\* ------------------------------------------------- WebRTCManager: sessions

\* create_connection up to `await pc.createOffer()`: a new connection and data
\* channel, stored under peer_id whatever is stored there.
create_connection(p) ==
    /\ nconn < MaxConns
    /\ Names(p)
    /\ FreeSlots # {}
    /\ LET h == nconn + 1 IN
        /\ nconn' = h
        /\ entries' = DictSet(p)
        /\ peers' = [peers EXCEPT ![p] = h]
        /\ data_channel' = [data_channel EXCEPT ![h] = h]
        /\ readyState' = [readyState EXCEPT ![h] = "connecting"]
        /\ created_for' = [created_for EXCEPT ![h] = p]
        /\ Suspend(FreeSlot, Task("create_connection", "createOffer", p, h))
    /\ UNCHANGED <<ice_candidates, engVars, received, ncands, arrived,
                   fanVars, busVars>>
    /\ UNCHANGED <<metrics, close_tasks, server, utils, stateVars>>

\* createOffer, then setLocalDescription, return; an engine error propagates.
create_connection_resume(t) ==
    /\ tasks[t].op = "create_connection"
    /\ \E ok \in BOOLEAN :
        IF ~ok
        THEN Finish(t, "EngineError") /\ UNCHANGED localDescription
        ELSE IF tasks[t].pc = "createOffer"
        THEN /\ Suspend(t, [tasks[t] EXCEPT !.pc = "setLocalDescription"])
             /\ UNCHANGED localDescription
        ELSE /\ localDescription' =
                    [localDescription EXCEPT ![tasks[t].h] = "offer"]
             /\ Finish(t, "ok")
    /\ UNCHANGED <<dictVars, data_channel, ice_candidates, remoteDescription,
                   setRemoteCalls, added, closeCalls, chanVars, callVars,
                   arrived, fanVars, busVars>>
    /\ UNCHANGED <<metrics, close_tasks, server, utils, stateVars>>
    /\ UNCHANGED created_for

\* The transport engine opens a data channel.
channel_open(c) ==
    /\ readyState[c] = "connecting"
    /\ readyState' = [readyState EXCEPT ![c] = "open"]
    /\ openedAt' = [openedAt EXCEPT ![c] = fanned]
    /\ ret' = NoRet
    /\ UNCHANGED <<dictVars, data_channel, ice_candidates, engVars, received,
                   callVars, arrived, sendFailed, fanned, busVars, tasks>>
    /\ UNCHANGED <<metrics, close_tasks, server, utils, stateVars>>
    /\ UNCHANGED created_for

\* close_peer_connection up to `await peer_info.connection.close()`, for a
\* peer that is a key: the pop, then data_channel.close() when the session has
\* a channel.  When that close raises, connection.close() is skipped.
ClosePrefix(p, chanRaises) ==
    LET h == peers[p]
        c == data_channel[h]
    IN  /\ peers' = [peers EXCEPT ![p] = 0]
        /\ entries' = DictDel(p)
        /\ readyState' = IF c # 0 /\ ~chanRaises
                         THEN [readyState EXCEPT ![c] = "closed"]
                         ELSE readyState
        /\ closeCalls' = IF c # 0 /\ chanRaises
                         THEN closeCalls
                         ELSE [closeCalls EXCEPT ![h] = @ + 1]

\* Whether ClosePrefix(p, chanRaises) reaches the await.
ClosePrefixAwaits(p, chanRaises) ==
    ~(data_channel[peers[p]] # 0 /\ chanRaises)

\* A close_peer_connection that pops without a default, `self.peers.pop(
\* peer_id)`: an absent peer raises (what C4 must tell from the code's).
close_peer_connection_strict(p) ==
    /\ Names(p)
    /\ IF peers[p] = 0
       THEN /\ ret' = Ret("close_peer_connection", p, "KeyError")
            /\ UNCHANGED <<peers, entries, readyState, closeCalls, tasks>>
       ELSE /\ ClosePrefix(p, FALSE)
            /\ FreeSlots # {}
            /\ Suspend(FreeSlot,
                 Task("close_peer_connection", "close", p, peers[p]))
    /\ UNCHANGED <<nconn, data_channel, ice_candidates, remoteDescription,
                   localDescription, setRemoteCalls, added, received,
                   ncands, arrived, fanVars, busVars>>
    /\ UNCHANGED <<metrics, close_tasks, server, utils, stateVars>>
    /\ UNCHANGED created_for

close_peer_connection(p) ==
    /\ Names(p)
    /\ IF peers[p] = 0
       THEN /\ ret' = Ret("close_peer_connection", p, "ok")
            /\ UNCHANGED <<peers, entries, readyState, closeCalls, tasks>>
       ELSE \E chanRaises \in BOOLEAN :
            /\ ClosePrefix(p, chanRaises)
            /\ IF ClosePrefixAwaits(p, chanRaises)
               THEN /\ FreeSlots # {}
                    /\ Suspend(FreeSlot,
                         Task("close_peer_connection", "close", p, peers[p]))
               ELSE /\ ret' = Ret("close_peer_connection", p, "ok")
                    /\ UNCHANGED tasks
    /\ UNCHANGED <<nconn, data_channel, ice_candidates, remoteDescription,
                   localDescription, setRemoteCalls, added, received,
                   ncands, arrived, fanVars, busVars>>
    /\ UNCHANGED <<metrics, close_tasks, server, utils, stateVars>>
    /\ UNCHANGED created_for

\* connection.close() returned or raised: either way the method returns.
close_peer_connection_resume(t) ==
    /\ tasks[t].op = "close_peer_connection"
    /\ Finish(t, "ok")
    /\ UNCHANGED <<mgrVars, busVars>>

\* ------------------------------------------------------- ICE candidates

\* A process_ice_candidate that raises for an unknown peer, as process_answer
\* does (what C8 must tell from the code's).
process_ice_candidate_strict(p, c) ==
    /\ c = ncands + 1
    /\ ncands' = c
    /\ Names(p)
    /\ peers[p] = 0
    /\ ret' = Ret("process_ice_candidate", p, "ValueError")
    /\ UNCHANGED <<ice_candidates, arrived, added, tasks>>
    /\ UNCHANGED <<dictVars, data_channel, remoteDescription, localDescription,
                   setRemoteCalls, closeCalls, chanVars, fanVars, busVars>>
    /\ UNCHANGED <<metrics, close_tasks, server, utils, stateVars>>
    /\ UNCHANGED created_for

\* A process_ice_candidate without the `return` of line 317: a candidate that
\* arrives before the remote description is buffered and passed on as well
\* (what C16 must tell from the code's).
process_ice_candidate_both(p, c) ==
    /\ c = ncands + 1
    /\ ncands' = c
    /\ Names(p)
    /\ IF peers[p] = 0
       THEN /\ ret' = Ret("process_ice_candidate", p, "returned")
            /\ UNCHANGED <<ice_candidates, arrived, added, tasks>>
       ELSE /\ FreeSlots # {}
            /\ IF ~remoteDescription[peers[p]]
               THEN /\ ice_candidates' =
                          [ice_candidates EXCEPT ![peers[p]] = @ \cup {c}]
                    /\ arrived' = [arrived EXCEPT ![peers[p]] = Append(@, c)]
               ELSE UNCHANGED <<ice_candidates, arrived>>
            /\ added' = [added EXCEPT ![peers[p]] = Append(@, c)]
            /\ Suspend(FreeSlot,
                 Task("process_ice_candidate", "addIceCandidate", p, peers[p]))
    /\ UNCHANGED <<dictVars, data_channel, remoteDescription, localDescription,
                   setRemoteCalls, closeCalls, chanVars, fanVars, busVars>>
    /\ UNCHANGED <<metrics, close_tasks, server, utils, stateVars>>
    /\ UNCHANGED created_for

\* process_ice_candidate up to its await, or to its return.
process_ice_candidate(p, c) ==
    /\ c = ncands + 1
    /\ ncands' = c
    /\ Names(p)
    /\ IF peers[p] = 0
       THEN /\ ret' = Ret("process_ice_candidate", p, "returned")
            /\ UNCHANGED <<ice_candidates, arrived, added, tasks>>
       ELSE IF ~remoteDescription[peers[p]]
       THEN /\ ice_candidates' =
                    [ice_candidates EXCEPT ![peers[p]] = @ \cup {c}]
            /\ arrived' = [arrived EXCEPT ![peers[p]] = Append(@, c)]
            /\ ret' = Ret("process_ice_candidate", p, "returned")
            /\ UNCHANGED <<added, tasks>>
       ELSE /\ FreeSlots # {}
            /\ added' = [added EXCEPT ![peers[p]] = Append(@, c)]
            /\ Suspend(FreeSlot,
                 Task("process_ice_candidate", "addIceCandidate", p, peers[p]))
            /\ UNCHANGED <<ice_candidates, arrived>>
    /\ UNCHANGED <<dictVars, data_channel, remoteDescription, localDescription,
                   setRemoteCalls, closeCalls, chanVars, fanVars, busVars>>
    /\ UNCHANGED <<metrics, close_tasks, server, utils, stateVars>>
    /\ UNCHANGED created_for

\* addIceCandidate returned or raised: the error is logged, not raised.
process_ice_candidate_resume(t) ==
    /\ tasks[t].op = "process_ice_candidate"
    /\ Finish(t, "returned")
    /\ UNCHANGED <<mgrVars, busVars>>

\* routes/api.py handle_ice_candidate: the response to a request whose fields
\* are all present, by what WebRTCManager.handle_ice_candidate did.
ice_candidate_response(res) ==
    IF res = "returned" THEN 200
    ELSE IF res \in {"ValueError", "JSONDecodeError"} THEN 400
    ELSE 500

\* ------------------------------------------------- offers and answers

\* The connection a buffered candidate is added to: process_answer looks the
\* session up again (self.peers[peer_id].connection), process_offer uses its
\* local pc.
AddTarget(T) == IF T.op = "process_answer" THEN peers[T.peer] ELSE T.h

\* After the buffered candidates: process_answer returns, process_offer goes
\* on to `await pc.createAnswer()`.
AfterDrain(t) ==
    IF tasks[t].op = "process_answer"
    THEN Finish(t, "ok")
    ELSE Suspend(t, [tasks[t] EXCEPT !.pc = "createAnswer", !.owner = 0,
                                     !.seen = {}, !.used = 0])

\* `for candidate_str in pending_candidates`: the next element of the set
\* iterator (any element not yet seen: a set has no order), then the body up
\* to `await ...addIceCandidate(candidate)`; or the end of the loop and
\* `self.peers[peer_id].ice_candidates.clear()`.
DrainNext(t, owner, seen, used) ==
    LET T == tasks[t]
        p == T.peer
    IN  IF Cardinality(ice_candidates[owner]) # used
        THEN Finish(t, "RuntimeError") /\ UNCHANGED <<ice_candidates, added>>
        ELSE IF ice_candidates[owner] \ seen = {}
        THEN IF peers[p] = 0
             THEN Finish(t, "KeyError") /\ UNCHANGED <<ice_candidates, added>>
             ELSE /\ ice_candidates' = [ice_candidates EXCEPT ![peers[p]] = {}]
                  /\ AfterDrain(t)
                  /\ UNCHANGED added
        ELSE \E c \in ice_candidates[owner] \ seen :
             IF AddTarget(T) = 0
             THEN Finish(t, "KeyError") /\ UNCHANGED <<ice_candidates, added>>
             ELSE /\ added' = [added EXCEPT ![AddTarget(T)] = Append(@, c)]
                  /\ Suspend(t, [T EXCEPT !.pc = "addIceCandidate",
                                          !.owner = owner,
                                          !.seen = seen \cup {c},
                                          !.used = used])
                  /\ UNCHANGED ice_candidates

\* `if pending_candidates := self.peers[peer_id].ice_candidates:`
DrainBegin(t) ==
    LET s == peers[tasks[t].peer]
    IN  IF s = 0
        THEN Finish(t, "KeyError") /\ UNCHANGED <<ice_candidates, added>>
        ELSE IF ice_candidates[s] = {}
        THEN AfterDrain(t) /\ UNCHANGED <<ice_candidates, added>>
        ELSE DrainNext(t, s, {}, Cardinality(ice_candidates[s]))

\* A process_answer without the test of line 213: the lookup of an absent
\* peer raises KeyError inside the try (what C6 must tell from the code's).
process_answer_unchecked(p, valid) ==
    /\ Names(p)
    /\ IF ~valid
       THEN /\ ret' = Ret("process_answer", p, "JSONDecodeError")
            /\ UNCHANGED <<setRemoteCalls, tasks>>
       ELSE IF peers[p] = 0
       THEN /\ ret' = Ret("process_answer", p, "KeyError")
            /\ UNCHANGED <<setRemoteCalls, tasks>>
       ELSE /\ FreeSlots # {}
            /\ setRemoteCalls' = [setRemoteCalls EXCEPT ![peers[p]] = @ + 1]
            /\ Suspend(FreeSlot,
                 Task("process_answer", "setRemoteDescription", p, peers[p]))
    /\ UNCHANGED <<dictVars, data_channel, ice_candidates, remoteDescription,
                   localDescription, added, closeCalls, chanVars, ncands,
                   arrived, fanVars, busVars>>
    /\ UNCHANGED <<metrics, close_tasks, server, utils, stateVars>>
    /\ UNCHANGED created_for

\* process_answer up to `await ...setRemoteDescription(answer)`.
process_answer(p, valid) ==
    /\ Names(p)
    /\ IF peers[p] = 0
       THEN /\ ret' = Ret("process_answer", p, "NotFound")
            /\ UNCHANGED <<setRemoteCalls, tasks>>
       ELSE IF ~valid
       THEN /\ ret' = Ret("process_answer", p, "JSONDecodeError")
            /\ UNCHANGED <<setRemoteCalls, tasks>>
       ELSE /\ FreeSlots # {}
            /\ setRemoteCalls' = [setRemoteCalls EXCEPT ![peers[p]] = @ + 1]
            /\ Suspend(FreeSlot,
                 Task("process_answer", "setRemoteDescription", p, peers[p]))
    /\ UNCHANGED <<dictVars, data_channel, ice_candidates, remoteDescription,
                   localDescription, added, closeCalls, chanVars, ncands,
                   arrived, fanVars, busVars>>
    /\ UNCHANGED <<metrics, close_tasks, server, utils, stateVars>>
    /\ UNCHANGED created_for

process_answer_resume(t) ==
    /\ tasks[t].op = "process_answer"
    /\ \E ok \in BOOLEAN :
        IF ~ok
        THEN /\ Finish(t, "EngineError")
             /\ UNCHANGED <<remoteDescription, ice_candidates, added>>
        ELSE IF tasks[t].pc = "setRemoteDescription"
        THEN /\ remoteDescription' =
                    [remoteDescription EXCEPT ![tasks[t].h] = TRUE]
             /\ DrainBegin(t)
        ELSE /\ DrainNext(t, tasks[t].owner, tasks[t].seen, tasks[t].used)
             /\ UNCHANGED remoteDescription
    /\ UNCHANGED <<dictVars, data_channel, localDescription, setRemoteCalls,
                   closeCalls, chanVars, callVars, arrived, fanVars, busVars>>
    /\ UNCHANGED <<metrics, close_tasks, server, utils, stateVars>>
    /\ UNCHANGED created_for

\* process_offer up to `await pc.setRemoteDescription(offer)`: the session is
\* created before the offer is parsed.
process_offer(p, valid) ==
    /\ Names(p)
    /\ peers[p] = 0 => nconn < MaxConns
    /\ LET h == IF peers[p] = 0 THEN nconn + 1 ELSE peers[p] IN
        /\ nconn' = IF peers[p] = 0 THEN h ELSE nconn
        /\ entries' = DictSet(p)
        /\ peers' = [peers EXCEPT ![p] = h]
        /\ created_for' = [created_for EXCEPT ![h] = p]
        /\ IF ~valid
           THEN /\ ret' = Ret("process_offer", p, "JSONDecodeError")
                /\ UNCHANGED <<setRemoteCalls, tasks>>
           ELSE /\ FreeSlots # {}
                /\ setRemoteCalls' = [setRemoteCalls EXCEPT ![h] = @ + 1]
                /\ Suspend(FreeSlot,
                     Task("process_offer", "setRemoteDescription", p, h))
    /\ UNCHANGED <<data_channel, ice_candidates, remoteDescription,
                   localDescription, added, closeCalls, chanVars, ncands,
                   arrived, fanVars, busVars>>
    /\ UNCHANGED <<metrics, close_tasks, server, utils, stateVars>>

process_offer_resume(t) ==
    /\ tasks[t].op = "process_offer"
    /\ \E ok \in BOOLEAN :
        IF ~ok
        THEN /\ Finish(t, "EngineError")
             /\ UNCHANGED <<remoteDescription, localDescription,
                            ice_candidates, added>>
        ELSE IF tasks[t].pc = "setRemoteDescription"
        THEN /\ remoteDescription' =
                    [remoteDescription EXCEPT ![tasks[t].h] = TRUE]
             /\ DrainBegin(t)
             /\ UNCHANGED localDescription
        ELSE IF tasks[t].pc = "addIceCandidate"
        THEN /\ DrainNext(t, tasks[t].owner, tasks[t].seen, tasks[t].used)
             /\ UNCHANGED <<remoteDescription, localDescription>>
        ELSE IF tasks[t].pc = "createAnswer"
        THEN /\ Suspend(t, [tasks[t] EXCEPT !.pc = "setLocalDescription"])
             /\ UNCHANGED <<remoteDescription, localDescription,
                            ice_candidates, added>>
        ELSE /\ localDescription' =
                    [localDescription EXCEPT ![tasks[t].h] = "answer"]
             /\ Finish(t, "answer")
             /\ UNCHANGED <<remoteDescription, ice_candidates, added>>
    /\ UNCHANGED <<dictVars, data_channel, setRemoteCalls, closeCalls,
                   chanVars, callVars, arrived, fanVars, busVars>>
    /\ UNCHANGED <<metrics, close_tasks, server, utils, stateVars>>
    /\ UNCHANGED created_for

\* ------------------------------------------------------------ EventEmitter

\* A dispatch to every handler, whatever it is subscribed to (what C12 must
\* tell from the code's).
OrdersAll(S) ==
    {s \in [1..Cardinality(ListenerFns) -> ListenerFns] :
        \A i, j \in 1..Cardinality(ListenerFns) : i # j => s[i] # s[j]}

\* The orders in which a Python set can be iterated.
Orders(S) ==
    {s \in [1..Cardinality(S) -> S] :
        \A i, j \in 1..Cardinality(S) : i # j => s[i] # s[j]}

add_listener(ty, hd) ==
    /\ nsubs < MaxSubs
    /\ nsubs' = nsubs + 1
    /\ listeners' = [listeners EXCEPT ![ty] = @ \cup {hd}]
    /\ UNCHANGED <<mgrVars, error_handlers, running, emits, queue, invoked,
                   raised, delivered, tasks>>
    /\ ret' = NoRet

remove_listener(ty, hd) ==
    /\ nsubs < MaxSubs
    /\ nsubs' = nsubs + 1
    /\ listeners' = [listeners EXCEPT ![ty] = @ \ {hd}]
    /\ UNCHANGED <<mgrVars, error_handlers, running, emits, queue, invoked,
                   raised, delivered, tasks>>
    /\ ret' = NoRet

add_error_handler(g) ==
    /\ nsubs < MaxSubs
    /\ nsubs' = nsubs + 1
    /\ error_handlers' = error_handlers \cup {g}
    /\ UNCHANGED <<mgrVars, listeners, running, emits, queue, invoked,
                   raised, delivered, tasks>>
    /\ ret' = NoRet

remove_error_handler(g) ==
    /\ nsubs < MaxSubs
    /\ nsubs' = nsubs + 1
    /\ error_handlers' = error_handlers \ {g}
    /\ UNCHANGED <<mgrVars, listeners, running, emits, queue, invoked,
                   raised, delivered, tasks>>
    /\ ret' = NoRet

stop ==
    /\ running' = FALSE
    /\ UNCHANGED nsubs
    /\ UNCHANGED <<mgrVars, listeners, error_handlers, emits, queue, invoked,
                   raised, delivered, tasks>>
    /\ ret' = NoRet

\* An emit without the test of self._running (what C10 must tell from the
\* code's).
emit_unchecked(ty) ==
    /\ Len(emits) < MaxEvents
    /\ IF listeners[ty] = {}
       THEN /\ emits' = Append(emits, [type |-> ty, status |-> "returned",
                                       handlers |-> {}, crashed |-> FALSE,
                                       peer |-> NoPeer])
            /\ UNCHANGED queue
       ELSE \E order \in Orders(listeners[ty]) :
            /\ queue' = queue \o [i \in 1..Len(order) |->
                                    [ev |-> Len(emits) + 1, hd |-> order[i]]]
            /\ emits' = Append(emits, [type |-> ty, status |-> "waiting",
                                       handlers |-> listeners[ty],
                                       crashed |-> FALSE, peer |-> NoPeer])
    /\ UNCHANGED nsubs
    /\ UNCHANGED <<mgrVars, listeners, error_handlers, running, invoked,
                   raised, delivered, tasks>>
    /\ ret' = NoRet

\* emit up to `await asyncio.gather(...)`, for an event of type ty whose
\* metadata names peer p (NoPeer: no metadata): one _safe_handle task per
\* handler subscribed to the type, created in the set's iteration order.  The
\* event is the emit call's number.
EmitBody(ty, p) ==
    /\ Len(emits) < MaxEvents
    /\ IF ~running
       THEN /\ emits' = Append(emits, [type |-> ty, status |-> "NotRunning",
                                       handlers |-> {}, crashed |-> FALSE,
                                       peer |-> p])
            /\ UNCHANGED queue
       ELSE IF listeners[ty] = {}
       THEN /\ emits' = Append(emits, [type |-> ty, status |-> "returned",
                                       handlers |-> {}, crashed |-> FALSE,
                                       peer |-> p])
            /\ UNCHANGED queue
       ELSE \E order \in Orders(listeners[ty]) :
            /\ queue' = queue \o [i \in 1..Len(order) |->
                                    [ev |-> Len(emits) + 1, hd |-> order[i]]]
            /\ emits' = Append(emits, [type |-> ty, status |-> "waiting",
                                       handlers |-> listeners[ty],
                                       crashed |-> FALSE, peer |-> p])

\* emit for an event without metadata.
emit(ty) ==
    /\ EmitBody(ty, NoPeer)
    /\ UNCHANGED nsubs
    /\ UNCHANGED <<mgrVars, listeners, error_handlers, running, invoked,
                   raised, delivered, tasks>>
    /\ ret' = NoRet

\* A gather that waits for no task (what C11 must tell from the code's).
PendingNone(k) == FALSE

\* A _safe_handle task of emit call k is not done.
Pending(k) ==
    \/ \E i \in 1..Len(queue) : queue[i].ev = k
    \/ \E t \in Slots : tasks[t].ev = k

\* asyncio.gather(*tasks, return_exceptions=True): what emit does once every
\* task is done, given whether one of them raised.
GatherResult(crashed) == "returned"

\* An emit that raises what a handler raised (what C13 must tell from the
\* code's).
emit_reraise(k) ==
    /\ k \in 1..Len(emits)
    /\ emits[k].status = "waiting"
    /\ ~Pending(k)
    /\ emits' = [emits EXCEPT ![k] =
                    [type |-> @.type,
                     status |-> IF \E x \in raised : x.ev = k
                                THEN "raised" ELSE "returned",
                     handlers |-> {}, crashed |-> FALSE, peer |-> @.peer]]
    /\ invoked' = {x \in invoked : x[1] # k}
    /\ raised' = {x \in raised : x.ev # k}
    /\ delivered' = {x \in delivered : x[1].original_event # k}
    /\ UNCHANGED nsubs
    /\ UNCHANGED <<mgrVars, listeners, error_handlers, running, queue, tasks>>
    /\ ret' = NoRet

\* emit returns.  (The history of an emit call is kept while it is in
\* progress.)
emit_return(k) ==
    /\ k \in 1..Len(emits)
    /\ emits[k].status = "waiting"
    /\ ~Pending(k)
    /\ emits' = [emits EXCEPT ![k] = [type |-> @.type,
                                      status |-> GatherResult(@.crashed),
                                      handlers |-> {}, crashed |-> FALSE, peer |-> @.peer]]
    /\ invoked' = {x \in invoked : x[1] # k}
    /\ raised' = {x \in raised : x.ev # k}
    /\ delivered' = {x \in delivered : x[1].original_event # k}
    /\ UNCHANGED nsubs
    /\ UNCHANGED <<mgrVars, listeners, error_handlers, running, queue, tasks>>
    /\ ret' = NoRet

\* The _safe_handle task in slot t (0: it was never suspended) of event k
\* ends: it returns, or an exception leaves it and is kept in the task.
EndHandle(t, k, hd, res) ==
    /\ tasks' = IF t \in Slots THEN [tasks EXCEPT ![t] = NoTask] ELSE tasks
    /\ emits' = IF res = "ok" THEN emits
                ELSE [emits EXCEPT ![k].crashed = TRUE]
    /\ ret' = Ret("safe_handle", hd, res)

\* The error event _safe_handle builds.
ErrorEvent(k, hd, reason) ==
    [type |-> "error", original_event |-> k, error |-> reason, handler |-> hd]

\* `for error_handler in self._error_handlers`: the next element of the set
\* iterator and `await error_handler(error_event)`, or the end of the loop.
\* T is the task's record.
NotifyNext(t, T, seen, used) ==
    IF Cardinality(error_handlers) # used
    THEN EndHandle(t, T.ev, T.hd, "RuntimeError") /\ UNCHANGED delivered
    ELSE IF error_handlers \ seen = {}
    THEN EndHandle(t, T.ev, T.hd, "ok") /\ UNCHANGED delivered
    ELSE \E g \in error_handlers \ seen :
         /\ t \in Slots
         /\ UNCHANGED emits
         /\ delivered' = delivered \cup
                           {<<ErrorEvent(T.ev, T.hd, T.reason), g>>}
         /\ Suspend(t, [T EXCEPT !.pc = "error_handler", !.cur = g,
                                 !.seen = seen \cup {g}, !.used = used])

\* The except branch of _safe_handle: the handler raised `reason`.
SafeHandleExcept(t, T, reason) ==
    /\ raised' = raised \cup {[ev |-> T.ev, hd |-> T.hd, reason |-> reason,
                                registered |-> error_handlers]}
    /\ NotifyNext(t, [T EXCEPT !.reason = reason], {},
                  Cardinality(error_handlers))

\* A _safe_handle task starts: `await handler(event)` for a user's handler.
safe_handle_start ==
    /\ queue # <<>>
    /\ Head(queue).hd \in ListenerFns
    /\ FreeSlots # {}
    /\ queue' = Tail(queue)
    /\ invoked' = invoked \cup {<<Head(queue).ev, Head(queue).hd>>}
    /\ Suspend(FreeSlot, [NoTask EXCEPT !.op = "safe_handle",
                                        !.pc = "handler",
                                        !.ev = Head(queue).ev,
                                        !.hd = Head(queue).hd])
    /\ UNCHANGED nsubs
    /\ UNCHANGED <<mgrVars, listeners, error_handlers, running, emits,
                   raised, delivered>>

\* The user's handler returns, or raises.
handler_return(t) ==
    /\ tasks[t].op = "safe_handle"
    /\ tasks[t].pc = "handler"
    /\ \/ /\ EndHandle(t, tasks[t].ev, tasks[t].hd, "ok")
          /\ UNCHANGED <<raised, delivered>>
       \/ \E reason \in Reasons : SafeHandleExcept(t, tasks[t], reason)
    /\ UNCHANGED nsubs
    /\ UNCHANGED <<mgrVars, listeners, error_handlers, running, queue,
                   invoked>>

\* A _safe_handle without the inner try: what an error handler raises leaves
\* the task (what C37 must tell from the code's).
error_handler_return_abort(t, ok) ==
    /\ tasks[t].pc = "error_handler"
    /\ IF ok
       THEN NotifyNext(t, tasks[t], tasks[t].seen, tasks[t].used)
       ELSE EndHandle(t, tasks[t].ev, tasks[t].hd, "Exception")
            /\ UNCHANGED delivered
    /\ UNCHANGED nsubs
    /\ UNCHANGED <<mgrVars, listeners, error_handlers, running, queue,
                   invoked, raised>>

\* The error handler awaited (cur) returns, or raises: its error is logged
\* (failed is the error handlers of this loop that raised) and the loop goes
\* on.
error_handler_return(t, ok) ==
    /\ tasks[t].pc = "error_handler"
    /\ NotifyNext(t, [tasks[t] EXCEPT !.failed =
                         IF ok THEN @ ELSE @ \cup {tasks[t].cur}],
                  tasks[t].seen, tasks[t].used)
    /\ UNCHANGED nsubs
    /\ UNCHANGED <<mgrVars, listeners, error_handlers, running, queue,
                   invoked, raised>>

\* ------------------------------------------------- WebRTCManager: fanout

\* A fanout that does not look at the channel's state (what C1 must tell from
\* the code's test).
OpenAny(s) == data_channel[s] # 0

\* `(channel := peer_info.data_channel) and channel.readyState == "open"`
Open(s) == data_channel[s] # 0 /\ readyState[data_channel[s]] = "open"

\* The entries after `from`, up to `to`, whose session has an open channel.
Sends(from, to) ==
    {i \in (from + 1)..to : entries[i] # NoPeer /\ Open(peers[entries[i]])}

\* channel.send(message) on each of them.
Deliver(k, from, to) ==
    [c \in Handles |->
        IF \E i \in Sends(from, to) : data_channel[peers[entries[i]]] = c
        THEN Append(received[c], k)
        ELSE received[c]]

\* len(message.encode()) of the message made from event k.
Size(k) == k

\* A metrics update made before each send, the one that raises included
\* (what C17 must tell from the code's).
AccountAttempts(k, from, to) ==
    [s \in Handles |->
        IF \E i \in (from + 1)..(to + 1) :
              /\ i <= Len(entries)
              /\ entries[i] # NoPeer
              /\ peers[entries[i]] = s
              /\ Open(s)
        THEN [metrics[s] EXCEPT !.messages_sent = @ + 1,
                                !.bytes_sent = @ + Size(k)]
        ELSE metrics[s]]

\* The metrics update after each of these sends.
Account(k, from, to) ==
    [s \in Handles |->
        IF \E i \in Sends(from, to) : peers[entries[i]] = s
        THEN [metrics[s] EXCEPT !.messages_sent = @ + 1,
                                !.bytes_sent = @ + Size(k)]
        ELSE metrics[s]]

\* `for peer_id, peer_info in self.peers.items()` from entry `from` on, without
\* interruption: next() raises when the dict's size is no longer `used`;
\* every open channel is sent the message, until one send raises (entry
\* failAt) and close_peer_connection is awaited, or the loop ends.
FanoutRun(t, T, from, used) ==
    IF Cardinality(Live) # used
    THEN /\ SafeHandleExcept(t, T, "RuntimeError")
         /\ UNCHANGED <<dictVars, readyState, closeCalls, received,
                        sendFailed, metrics>>
    ELSE \E failAt \in {0} \cup Sends(from, Len(entries)) :
         IF failAt = 0
         THEN /\ received' = Deliver(T.ev, from, Len(entries))
              /\ metrics' = Account(T.ev, from, Len(entries))
              /\ EndHandle(t, T.ev, T.hd, "ok")
              /\ UNCHANGED <<dictVars, readyState, closeCalls, sendFailed,
                             raised, delivered>>
         ELSE \E chanRaises \in BOOLEAN :
              /\ t \in Slots
              /\ received' = Deliver(T.ev, from, failAt - 1)
              /\ metrics' = Account(T.ev, from, failAt - 1)
              /\ sendFailed' = TRUE
              /\ ClosePrefix(entries[failAt], chanRaises)
              /\ UNCHANGED nconn
              /\ IF ClosePrefixAwaits(entries[failAt], chanRaises)
                 THEN /\ Suspend(t, [T EXCEPT !.pc = "close",
                                              !.peer = entries[failAt],
                                              !.h = peers[entries[failAt]],
                                              !.pos = failAt,
                                              !.used = used])
                      /\ UNCHANGED <<raised, delivered, emits>>
                 ELSE SafeHandleExcept(t, T, "RuntimeError")

\* The _safe_handle task of _handle_model_output starts.
handle_model_output_start ==
    /\ queue # <<>>
    /\ Head(queue).hd = Fanout
    /\ queue' = Tail(queue)
    /\ fanned' = fanned + 1
    /\ invoked' = invoked \cup {<<Head(queue).ev, Fanout>>}
    /\ FanoutRun(IF FreeSlots # {} THEN FreeSlot ELSE 0,
                 [NoTask EXCEPT !.op = "handle_model_output",
                                !.ev = Head(queue).ev, !.hd = Fanout],
                 0, Cardinality(Live))
    /\ UNCHANGED nsubs
    /\ UNCHANGED <<data_channel, ice_candidates, remoteDescription,
                   localDescription, setRemoteCalls, added, callVars,
                   arrived, openedAt, listeners, error_handlers, running>>
    /\ UNCHANGED <<close_tasks, server, utils, created_for, stateVars>>

\* close_peer_connection returned to the loop.
handle_model_output_resume(t) ==
    /\ tasks[t].op = "handle_model_output"
    /\ tasks[t].pc = "close"
    /\ FanoutRun(t, tasks[t], tasks[t].pos, tasks[t].used)
    /\ UNCHANGED nsubs
    /\ UNCHANGED <<data_channel, ice_candidates, remoteDescription,
                   localDescription, setRemoteCalls, added, callVars,
                   arrived, fanned, openedAt, listeners, error_handlers,
                   running, queue, invoked>>
    /\ UNCHANGED <<close_tasks, server, utils, created_for, stateVars>>

\* ------------------------------------------------------- specifications

InitCommon ==
    /\ entries = <<>>
    /\ peers = [p \in PeerIds |-> 0]
    /\ nconn = 0
    /\ data_channel = [h \in Handles |-> 0]
    /\ ice_candidates = [h \in Handles |-> {}]
    /\ remoteDescription = [h \in Handles |-> FALSE]
    /\ localDescription = [h \in Handles |-> "none"]
    /\ setRemoteCalls = [h \in Handles |-> 0]
    /\ added = [h \in Handles |-> <<>>]
    /\ closeCalls = [h \in Handles |-> 0]
    /\ readyState = [h \in Handles |-> "none"]
    /\ received = [h \in Handles |-> <<>>]
    /\ tasks = [t \in Slots |-> NoTask]
    /\ ret = NoRet
    /\ ncalls = 0
    /\ npeers = 0
    /\ ncands = 0
    /\ error_handlers = {}
    /\ running = TRUE
    /\ emits = <<>>
    /\ nsubs = 0
    /\ metrics = [h \in Handles |->
                    [messages_sent |-> 0, messages_received |-> 0,
                     bytes_sent |-> 0, bytes_received |-> 0]]
    /\ close_tasks = <<>>
    /\ created_for = [h \in Handles |-> NoPeer]
    /\ connectionState = [h \in Handles |-> "new"]
    /\ iceConnectionState = [h \in Handles |-> "new"]
    /\ server = NoServer
    /\ utils = NoUtils
    /\ queue = <<>>
    /\ arrived = [h \in Handles |-> <<>>]
    /\ sendFailed = FALSE
    /\ fanned = 0
    /\ openedAt = [h \in Handles |-> 0]
    /\ invoked = {}
    /\ raised = {}
    /\ delivered = {}

\* A producer publishes a model_output event on the manager's bus.
publish ==
    /\ Calls < MaxCalls
    /\ emit("model_output")

\* A WebRTCManager on its own EventEmitter, as StrapToServer.__init__ builds
\* them: the manager's listener is the only one.
Init ==
    /\ InitCommon
    /\ listeners = [ty \in EventTypes |->
                      IF ty = "model_output" THEN {Fanout} ELSE {}]

\* The signaling calls.  (What the fanout does to a session on a failed send
\* is close_peer_connection.)
Next ==
    \/ \E p \in PeerIds : create_connection(p)
    \/ \E t \in Slots : create_connection_resume(t)
    \/ \E p \in PeerIds : close_peer_connection(p)
    \/ \E t \in Slots : close_peer_connection_resume(t)
    \/ \E p \in PeerIds, c \in Cands : process_ice_candidate(p, c)
    \/ \E t \in Slots : process_ice_candidate_resume(t)
    \/ \E p \in PeerIds, valid \in BOOLEAN : process_answer(p, valid)
    \/ \E t \in Slots : process_answer_resume(t)
    \/ \E p \in PeerIds, valid \in BOOLEAN : process_offer(p, valid)
    \/ \E t \in Slots : process_offer_resume(t)

Spec == Init /\ [][Next]_vars

\* The fanout of model_output events, with every call that writes what the
\* fanout reads: the dict of peers, the sessions' channels and their state.
\* (process_answer and process_ice_candidate write none of them.)
NextFanout ==
    \/ \E p \in PeerIds : create_connection(p)
    \/ \E t \in Slots : create_connection_resume(t)
    \/ \E p \in PeerIds, valid \in BOOLEAN : process_offer(p, valid)
    \/ \E t \in Slots : process_offer_resume(t)
    \/ \E c \in Handles : channel_open(c)
    \/ \E p \in PeerIds : close_peer_connection(p)
    \/ \E t \in Slots : close_peer_connection_resume(t)
    \/ publish
    \/ handle_model_output_start
    \/ \E t \in Slots : handle_model_output_resume(t)
    \/ \E k \in 1..MaxEvents : emit_return(k)

SpecFanout == Init /\ [][NextFanout]_vars

\* An EventEmitter on its own, as constructed, with a user's handlers.
InitBus ==
    /\ InitCommon
    /\ listeners = [ty \in EventTypes |-> {}]

NextBus ==
    \/ \E ty \in BusTypes, hd \in ListenerFns : add_listener(ty, hd)
    \/ \E ty \in BusTypes, hd \in ListenerFns : remove_listener(ty, hd)
    \/ \E g \in ErrorFns : add_error_handler(g)
    \/ \E g \in ErrorFns : remove_error_handler(g)
    \/ stop
    \/ \E ty \in BusTypes : emit(ty)
    \/ safe_handle_start
    \/ \E t \in Slots : handler_return(t)
    \/ \E t \in Slots, ok \in BOOLEAN : error_handler_return(t, ok)
    \/ \E k \in 1..MaxEvents : emit_return(k)

SpecBus == InitBus /\ [][NextBus]_vars

\* ------------------------------------------------ WebRTCManager: teardown

\* What no teardown path writes.
closeFrame == <<nconn, data_channel, ice_candidates, remoteDescription,
                localDescription, setRemoteCalls, added, received, arrived,
                fanVars, busVars, metrics, server, utils, created_for, npeers,
                ncands>>

\* The coroutine `op` in slot t (0: it has not been suspended yet) returns.
End(t, op, p) ==
    /\ tasks' = IF t \in Slots THEN [tasks EXCEPT ![t] = NoTask] ELSE tasks
    /\ ret' = Ret(op, p, "ok")

\* `await self.close_peer_connection(peer_id)` inside the coroutine `op`, whose
\* own connection is h0, up to `await peer_info.connection.close()` or to the
\* return of both.
CloseIn(t, op, p, h0, i) ==
    IF peers[p] = 0
    THEN /\ End(t, op, p)
         /\ UNCHANGED <<peers, entries, readyState, closeCalls>>
    ELSE \E chanRaises \in BOOLEAN :
         /\ ClosePrefix(p, chanRaises)
         /\ IF ClosePrefixAwaits(p, chanRaises)
            THEN /\ t = 0 => FreeSlots # {}
                 /\ Suspend(IF t = 0 THEN FreeSlot ELSE t,
                            [Task(op, "close", p, peers[p])
                                EXCEPT !.owner = h0, !.pos = i])
            ELSE End(t, op, p)

\* The engine reports that the state of connection h became `state`, and the
\* on_connectionstatechange callback of h runs: for "failed", and for "closed"
\* when peer_id is a key, it awaits close_peer_connection(peer_id).
on_connectionstatechange(h, state) ==
    /\ h <= nconn
    /\ connectionState[h] # "closed"
    /\ connectionState[h] # state
    /\ Calls < MaxCalls
    /\ ncalls' = ncalls + 1
    /\ connectionState' = [connectionState EXCEPT ![h] = state]
    /\ CloseIn(0, "on_connectionstatechange", created_for[h], h, 0)
    /\ UNCHANGED <<closeFrame, iceConnectionState, close_tasks>>

\* The engine reports that the ICE connection of h failed, and the
\* on_iceconnectionstatechange callback of h runs up to `await pc.close()`.
on_iceconnectionstatechange(h) ==
    /\ h <= nconn
    /\ iceConnectionState[h] = "new"
    /\ Calls < MaxCalls
    /\ ncalls' = ncalls + 1
    /\ FreeSlots # {}
    /\ iceConnectionState' = [iceConnectionState EXCEPT ![h] = "failed"]
    /\ closeCalls' = [closeCalls EXCEPT ![h] = @ + 1]
    /\ Suspend(FreeSlot,
               [Task("on_iceconnectionstatechange", "pc.close", created_for[h],
                     h) EXCEPT !.owner = h])
    /\ UNCHANGED <<closeFrame, connectionState, close_tasks, peers, entries,
                   readyState>>

\* A callback goes on: pc.close() returned, and close_peer_connection is
\* awaited; or pc.close() raised, and the callback ends there; or the
\* connection.close() of close_peer_connection returned or raised, and the
\* callback returns.
callback_resume(t) ==
    /\ tasks[t].op \in {"on_connectionstatechange",
                        "on_iceconnectionstatechange"}
    /\ IF tasks[t].pc = "pc.close"
       THEN \E ok \in BOOLEAN :
            IF ok
            THEN CloseIn(t, tasks[t].op, tasks[t].peer, tasks[t].owner, 0)
            ELSE /\ Finish(t, "EngineError")
                 /\ UNCHANGED <<peers, entries, readyState, closeCalls>>
       ELSE /\ Finish(t, "ok")
            /\ UNCHANGED <<peers, entries, readyState, closeCalls>>
    /\ UNCHANGED <<closeFrame, stateVars, close_tasks, ncalls>>

\* close_all_connections up to `await asyncio.gather(...)`: one
\* close_peer_connection coroutine per key of self.peers, in the order of the
\* keys.  (h is the session stored under the key and calls the number of
\* calls made, at that time.)
close_all_connections ==
    /\ close_tasks = <<>>
    /\ Calls < MaxCalls
    /\ ncalls' = ncalls + 1
    /\ LET keys == SelectSeq(entries, LAMBDA p : p # NoPeer) IN
        /\ close_tasks' = [i \in 1..Len(keys) |->
                             [peer |-> keys[i], h |-> peers[keys[i]],
                              calls |-> ncalls + 1, state |-> "created"]]
        /\ ret' = IF keys = <<>>
                  THEN Ret("close_all_connections", NoPeer, "ok")
                  ELSE NoRet
    /\ UNCHANGED <<closeFrame, stateVars, peers, entries, readyState,
                   closeCalls, tasks>>

\* The next coroutine of the gather starts: close_peer_connection runs up to
\* its await, or to its return.
gathered_close_start(i) ==
    /\ i \in 1..Len(close_tasks)
    /\ close_tasks[i].state = "created"
    /\ \A j \in 1..(i - 1) : close_tasks[j].state # "created"
    /\ CloseIn(0, "gathered_close", close_tasks[i].peer, 0, i)
    /\ close_tasks' = [close_tasks EXCEPT ![i].state =
                          IF ret' = NoRet THEN "running" ELSE "done"]
    /\ UNCHANGED <<closeFrame, stateVars, ncalls>>

\* Its connection.close() returned or raised.
gathered_close_resume(t) ==
    /\ tasks[t].op = "gathered_close"
    /\ Finish(t, "ok")
    /\ close_tasks' = [close_tasks EXCEPT ![tasks[t].pos].state = "done"]
    /\ UNCHANGED <<closeFrame, stateVars, ncalls, peers, entries, readyState,
                   closeCalls>>

\* Every coroutine of the gather is done: close_all_connections returns.
close_all_connections_return ==
    /\ close_tasks # <<>>
    /\ \A i \in 1..Len(close_tasks) : close_tasks[i].state = "done"
    /\ close_tasks' = <<>>
    /\ ret' = Ret("close_all_connections", NoPeer, "ok")
    /\ UNCHANGED <<closeFrame, stateVars, ncalls, peers, entries, readyState,
                   closeCalls, tasks>>

\* The teardown paths, with the calls that create sessions.
NextTeardown ==
    \/ \E p \in PeerIds : create_connection(p)
    \/ \E t \in Slots : create_connection_resume(t)
    \/ \E p \in PeerIds, valid \in BOOLEAN : process_offer(p, valid)
    \/ \E t \in Slots : process_offer_resume(t)
    \/ \E p \in PeerIds : close_peer_connection(p)
    \/ \E t \in Slots : close_peer_connection_resume(t)
    \/ \E h \in Handles, state \in {"failed", "closed"} :
            on_connectionstatechange(h, state)
    \/ \E h \in Handles : on_iceconnectionstatechange(h)
    \/ \E t \in Slots : callback_resume(t)
    \/ close_all_connections
    \/ \E i \in 1..MaxPeers : gathered_close_start(i)
    \/ \E t \in Slots : gathered_close_resume(t)
    \/ close_all_connections_return

SpecTeardown == Init /\ [][NextTeardown]_vars

\* ------------------------------------- WebRTCManager: consumer messages

\* The text messages a consumer sends: one that is not JSON, a JSON list, a
\* JSON object without "type", and one whose "type" is model_output.
Msgs == {"{", "[]", "{}", "{\"type\":\"model_output\"}"}

\* len(message.encode())
Bytes(m) ==
    CASE m = "{"  -> 1
      [] m = "[]" -> 2
      [] m = "{}" -> 2
      [] OTHER    -> 23

\* json.loads(message), then data.get("type", "consumer_message"): the type of
\* the event, or the exception raised.
MessageType(m) ==
    CASE m = "{"  -> "JSONDecodeError"
      [] m = "[]" -> "AttributeError"
      [] m = "{}" -> "consumer_message"
      [] OTHER    -> "model_output"

\* on_message of the channel c that create_connection made for a session as
\* peer_id: the counters of the session now stored under peer_id, then the
\* parse, then emit up to its gather.  What the parse raises is logged, and
\* on_message returns.
on_message(c, m) ==
    /\ \E h \in Handles : data_channel[h] = c
    /\ readyState[c] = "open"
    /\ Calls < MaxCalls
    /\ LET h == CHOOSE x \in Handles : data_channel[x] = c
           p == created_for[h]
           s == peers[p]
       IN  /\ metrics' = IF s = 0
                         THEN metrics
                         ELSE [metrics EXCEPT
                                 ![s].messages_received = @ + 1,
                                 ![s].bytes_received = @ + Bytes(m)]
           /\ IF MessageType(m) \in EventTypes
              THEN /\ EmitBody(MessageType(m), p)
                   /\ ret' = NoRet
                   /\ UNCHANGED ncalls
              ELSE /\ ncalls' = ncalls + 1
                   /\ ret' = Ret("on_message", p, MessageType(m))
                   /\ UNCHANGED <<emits, queue>>
    /\ UNCHANGED <<dictVars, data_channel, ice_candidates, engVars, chanVars,
                   npeers, ncands, arrived, fanVars, close_tasks, server, utils,
                   created_for, stateVars, listeners,
                   error_handlers, running, nsubs, invoked, raised, delivered,
                   tasks>>

\* The fanout with the messages of the consumers.
NextMessages ==
    \/ \E p \in PeerIds : create_connection(p)
    \/ \E t \in Slots : create_connection_resume(t)
    \/ \E c \in Handles : channel_open(c)
    \/ \E p \in PeerIds : close_peer_connection(p)
    \/ \E t \in Slots : close_peer_connection_resume(t)
    \/ \E c \in Handles, m \in Msgs : on_message(c, m)
    \/ publish
    \/ handle_model_output_start
    \/ \E t \in Slots : handle_model_output_resume(t)
    \/ \E k \in 1..MaxEvents : emit_return(k)

SpecMessages == Init /\ [][NextMessages]_vars

\* --------------------------------------------------------- StrapToServer

\* The shutdown coroutines of one run: the tasks the two signal handlers
\* create, the call in start's finally block, and a call made before start.
ShutdownIds == {"SIGTERM", "SIGINT", "finally", "direct"}
Signals     == {"SIGTERM", "SIGINT"}

\* Where a shutdown coroutine is suspended.
ShutdownAwaits == {"await task", "runner.cleanup", "model_interface.disconnect",
                   "webrtc_manager.disconnect"}

\* What no step of the server writes.
serverFrame == <<dictVars, data_channel, ice_candidates, engVars, chanVars,
                 callVars, arrived, fanVars, metrics, close_tasks, utils,
                 created_for,
                 stateVars, error_handlers, running, emits, nsubs, queue,
                 invoked, raised, delivered, tasks, ret>>

\* shutdown after its loop over self.tasks: runner.cleanup() when there is a
\* runner, else model_interface.disconnect().
AfterTasks(S, id) ==
    IF S.runner
    THEN [S EXCEPT !.sd[id] = "runner.cleanup"]
    ELSE [S EXCEPT !.model_disconnects = @ + 1,
                   !.sd[id] = "model_interface.disconnect"]

\* shutdown from its call up to its first await, or to its return when the
\* server is not running.
ShutdownBegin(S, id) ==
    IF ~S.running
    THEN [S EXCEPT !.sd[id] = "skipped"]
    ELSE IF S.watcher = "running"
    THEN [S EXCEPT !.running = FALSE, !.watcher = "cancelling",
                   !.sd[id] = "await task"]
    ELSE AfterTasks([S EXCEPT !.running = FALSE], id)

\* start reaches its finally block: `await self.shutdown()`.
StartFinally(S) ==
    LET S2 == ShutdownBegin(S, "finally")
    IN  [S2 EXCEPT !.start = IF S2.sd["finally"] = "skipped"
                             THEN "done" ELSE "finally"]

\* asyncio.run(server.start()): start up to `await self.connect()`.
start ==
    /\ server.start = "none"
    /\ server' = [server EXCEPT !.running = TRUE, !.start = "connect"]
    /\ UNCHANGED <<serverFrame, listeners>>

\* model_interface.connect() returned True (the watcher task is created and
\* start_http_server runs up to its await), returned False, or raised.
connect_return(res) ==
    /\ server.start = "connect"
    /\ server' = IF res = "True"
                 THEN [server EXCEPT !.watcher = "running", !.runner = TRUE,
                                     !.start = "start_http_server"]
                 ELSE StartFinally(server)
    /\ UNCHANGED <<serverFrame, listeners>>

\* start_http_server returned, and the main loop tests self.running; or it
\* raised.
start_http_server_return(ok) ==
    /\ server.start = "start_http_server"
    /\ server' = IF ok /\ server.running
                 THEN [server EXCEPT !.start = "sleep"]
                 ELSE StartFinally(server)
    /\ UNCHANGED <<serverFrame, listeners>>

\* `while self.running: await asyncio.sleep(1)` ends.
main_loop_exit ==
    /\ server.start = "sleep"
    /\ ~server.running
    /\ server' = StartFinally(server)
    /\ UNCHANGED <<serverFrame, listeners>>

\* The watcher task ends by itself.
watcher_exit ==
    /\ server.watcher = "running"
    /\ server' = [server EXCEPT !.watcher = "done"]
    /\ UNCHANGED <<serverFrame, listeners>>

\* The watcher takes the next output from model_interface.get_outputs() and
\* prints it: text to stdout, a status as a block, an error to stderr.
\* (outputs is what it has taken, by output_type.)
MaxOutputs == 2
OutputTypes == {"text", "status", "error"}

watch_model_outputs(kind) ==
    /\ server.watcher = "running"
    /\ Len(server.outputs) < MaxOutputs
    /\ server' = [server EXCEPT !.outputs = Append(@, kind)]
    /\ UNCHANGED <<serverFrame, listeners>>

\* A signal arrives: its handler creates the task shutdown(sig).
signal_handler(sig) ==
    /\ server.start # "none"
    /\ server.loop = "running"
    /\ server.sd[sig] = "idle"
    /\ server' = [server EXCEPT !.sd[sig] = "created"]
    /\ UNCHANGED <<serverFrame, listeners>>

\* The task shutdown(sig) starts.
shutdown_start(sig) ==
    /\ server.sd[sig] = "created"
    /\ server' = ShutdownBegin(server, sig)
    /\ UNCHANGED <<serverFrame, listeners>>

\* shutdown() is called while start has not been.
shutdown(id) ==
    /\ id = "direct"
    /\ server.start = "none"
    /\ server.sd[id] = "idle"
    /\ server' = ShutdownBegin(server, id)
    /\ UNCHANGED <<serverFrame, listeners>>

\* The step of shutdown after the one at pc.
NextStep(S, id, pc) ==
    CASE pc = "await task" ->
            AfterTasks([S EXCEPT !.watcher = "done"], id)
      [] pc = "runner.cleanup" ->
            [S EXCEPT !.model_disconnects = @ + 1,
                      !.sd[id] = "model_interface.disconnect"]
      [] pc = "model_interface.disconnect" ->
            [S EXCEPT !.webrtc_disconnects = @ + 1,
                      !.sd[id] = "webrtc_manager.disconnect"]
      [] OTHER ->
            [S EXCEPT !.sd[id] = "done",
                      !.start = IF id = "finally" THEN "done" ELSE @]

\* A shutdown without its `except Exception` blocks: what an awaited step
\* raises leaves shutdown (what C21 must tell from the code's).
shutdown_resume_abort(id, ok) ==
    /\ server.sd[id] \in ShutdownAwaits
    /\ server.loop # "closed"
    /\ server.sd[id] = "await task" => ok
    /\ LET pc == server.sd[id] IN
        /\ server' = IF ok
                      THEN NextStep(server, id, pc)
                      ELSE [server EXCEPT !.sd[id] = "raised",
                                          !.start = IF id = "finally"
                                                    THEN "done" ELSE @]
        /\ listeners' = IF pc = "webrtc_manager.disconnect" /\ ok
                        THEN [ty \in EventTypes |-> {}]
                        ELSE listeners
    /\ UNCHANGED serverFrame

\* What shutdown awaited returned (ok), or raised an Exception that was
\* logged: the next step, up to its await; after webrtc_manager.disconnect()
\* every listener is removed and shutdown returns, which ends start when it
\* is the call of the finally block.  (The watcher task passes over its
\* CancelledError and every Exception: awaiting it raises nothing.)
shutdown_resume(id, ok) ==
    /\ server.sd[id] \in ShutdownAwaits
    /\ server.loop # "closed"
    /\ server.sd[id] = "await task" => ok
    /\ LET pc == server.sd[id]
           S  == IF ok THEN server
                 ELSE [server EXCEPT !.logged = @ \cup {pc}]
       IN
        /\ server' = NextStep(S, id, pc)
        /\ listeners' = IF pc = "webrtc_manager.disconnect"
                        THEN [ty \in EventTypes |-> {}]
                        ELSE listeners
    /\ UNCHANGED serverFrame

\* start returned: asyncio.run cancels the tasks that are left.  A task that
\* has not started never runs; CancelledError raised at `await task` is
\* passed over by `except asyncio.CancelledError`, and shutdown goes on;
\* raised at any other await it is no Exception, and leaves shutdown.
asyncio_run_cancel ==
    /\ server.start = "done"
    /\ server.loop = "running"
    /\ server' = [server EXCEPT
         !.loop = "cancelling",
         !.watcher = IF @ = "none" THEN "none" ELSE "done",
         !.sd = [id \in ShutdownIds |->
                   IF id \in Signals /\ server.sd[id] \in
                        (ShutdownAwaits \cup {"created"}) \ {"await task"}
                   THEN "cancelled"
                   ELSE server.sd[id]]]
    /\ UNCHANGED <<serverFrame, listeners>>

\* Every task is done: asyncio.run closes the loop and returns.
asyncio_run_return ==
    /\ server.loop = "cancelling"
    /\ \A id \in ShutdownIds : server.sd[id] \notin ShutdownAwaits
    /\ server' = [server EXCEPT !.loop = "closed"]
    /\ UNCHANGED <<serverFrame, listeners>>

\* One run of the server under main().
NextServer ==
    \/ start
    \/ \E res \in {"True", "False", "raise"} : connect_return(res)
    \/ \E ok \in BOOLEAN : start_http_server_return(ok)
    \/ main_loop_exit
    \/ watcher_exit
    \/ \E kind \in OutputTypes : watch_model_outputs(kind)
    \/ \E sig \in Signals : signal_handler(sig)
    \/ \E sig \in Signals : shutdown_start(sig)
    \/ \E id \in ShutdownIds : shutdown(id)
    \/ \E id \in ShutdownIds, ok \in BOOLEAN : shutdown_resume(id, ok)
    \/ asyncio_run_cancel
    \/ asyncio_run_return

SpecServer == Init /\ [][NextServer]_vars

\* ------------------------------------------------- routes: POST /webrtc/offer

OfferFields == {"sdp", "type", "client_id"}

\* The bodies of the requests: one that is not JSON, and JSON objects with
\* some of the fields, a type, a client id and an sdp that json.loads parses
\* (valid) or not.  A field that is absent has the first value.
OfferRequests ==
    {[json |-> FALSE, fields |-> {}, type |-> "offer", client_id |-> 1,
      valid |-> TRUE]}
    \cup {[json |-> TRUE, fields |-> f, type |-> "offer", client_id |-> 1,
           valid |-> TRUE] : f \in (SUBSET OfferFields) \ {OfferFields}}
    \cup {[json |-> TRUE, fields |-> OfferFields, type |-> ty,
           client_id |-> p, valid |-> v] :
             ty \in {"offer", "answer"}, p \in PeerIds, v \in BOOLEAN}

\* A validation that takes every type for an offer (what C22 must tell from
\* the code's).
ValidateAnyType(req) ==
    IF ~req.json THEN "JSONDecodeError"
    ELSE IF ~(OfferFields \subseteq req.fields) THEN "MissingFields"
    ELSE "ok"

\* handle_offer of routes/api.py before it calls the manager: what it answers
\* with, or "ok".
Validate(req) ==
    IF ~req.json THEN "JSONDecodeError"
    ELSE IF ~(OfferFields \subseteq req.fields) THEN "MissingFields"
    ELSE IF req.type # "offer" THEN "InvalidType"
    ELSE "ok"

\* The status of the response, by what the route returned or what
\* WebRTCManager.handle_offer returned or raised: `except ValueError` has
\* JSONDecodeError, `except Exception` the rest.
offer_response(res) ==
    IF res = "answer" THEN 200
    ELSE IF res \in {"MissingFields", "InvalidType", "JSONDecodeError",
                     "ValueError"} THEN 400
    ELSE 500

\* A request arrives: the route up to `await request.json()`.  (server.request
\* is the body read last; equal requests may follow one another.)
offer_request(req) ==
    /\ server.request # req
    /\ server' = [server EXCEPT !.request = req]
    /\ ret' = NoRet
    /\ UNCHANGED <<dictVars, data_channel, ice_candidates, engVars, chanVars,
                   callVars, arrived, fanVars, metrics, close_tasks, utils,
                   created_for, stateVars, busVars, tasks>>

\* The route goes on with the body: it answers 400, or calls
\* WebRTCManager.handle_offer, which runs process_offer up to its await.
handle_offer ==
    /\ server.request \in OfferRequests
    /\ IF Validate(server.request) = "ok"
       THEN process_offer(server.request.client_id, server.request.valid)
       ELSE /\ Calls < MaxCalls
            /\ ncalls' = ncalls + 1
            /\ ret' = Ret("handle_offer", NoPeer, Validate(server.request))
            /\ UNCHANGED <<dictVars, data_channel, ice_candidates, engVars,
                           chanVars, npeers, ncands, arrived, fanVars, metrics,
                           close_tasks, server, utils, created_for, stateVars,
                           busVars, tasks>>

\* The offers that arrive over HTTP, with the calls that close sessions.
NextOffers ==
    \/ \E req \in OfferRequests : offer_request(req)
    \/ handle_offer
    \/ \E t \in Slots : process_offer_resume(t)
    \/ \E p \in PeerIds : close_peer_connection(p)
    \/ \E t \in Slots : close_peer_connection_resume(t)

SpecOffers == Init /\ [][NextOffers]_vars

\* ----------------------------------------------------------- RateLimiter
\* A token bucket (utils.py).  tokens is a float in the code; here it is
\* counted in TokenUnit-ths of a token, and rate in such parts per tick of
\* loop.time().  acquire takes the limiter's asyncio.Lock, which is free
\* whenever acquire is entered because the body under the lock has no
\* await: one acquire is one uninterrupted step, in whatever order the
\* event loop runs the callers.
MaxBurst == 2
MaxTime == 3
MaxAcquires == 4
TokenUnit == 2
Rates == {1, 2}

Min(a, b) == IF a <= b THEN a ELSE b

limiterFrame == <<dictVars, data_channel, ice_candidates, engVars, chanVars,
                  callVars, arrived, fanVars, metrics, close_tasks, server,
                  created_for, stateVars, busVars, tasks, ret>>

\* loop.time() moves on.
tick ==
    /\ utils.now < MaxTime
    /\ utils' = [utils EXCEPT !.now = @ + 1]
    /\ UNCHANGED limiterFrame

\* RateLimiter(rate, burst): the bucket starts full.
RateLimiter(rate, burst) ==
    /\ utils.limiter = NoLimiter
    /\ utils' = [utils EXCEPT !.limiter =
                    [rate |-> rate, burst |-> burst,
                     tokens |-> burst * TokenUnit,
                     last_update |-> utils.now, created |-> utils.now,
                     calls |-> <<>>]]
    /\ UNCHANGED limiterFrame

\* The refill without the cap at burst.
RefillUncapped(l, now) == l.tokens + (now - l.last_update) * l.rate

\* min(self.burst, self.tokens + time_passed * self.rate)
Refill(l, now) ==
    Min(l.burst * TokenUnit, l.tokens + (now - l.last_update) * l.rate)

\* acquire(): refill, then take one token if there is one.  calls is the
\* record of what each call returned, and when.
acquire ==
    LET l == utils.limiter
        t == Refill(l, utils.now)
    IN  /\ l # NoLimiter
        /\ Len(l.calls) < MaxAcquires
        /\ utils' = [utils EXCEPT !.limiter =
              IF t >= TokenUnit
              THEN [l EXCEPT !.tokens = t - TokenUnit,
                             !.last_update = utils.now,
                             !.calls = Append(@, [at |-> utils.now,
                                                  ok |-> TRUE])]
              ELSE [l EXCEPT !.tokens = t,
                             !.calls = Append(@, [at |-> utils.now,
                                                  ok |-> FALSE])]]
        /\ UNCHANGED limiterFrame

NextLimiter ==
    \/ tick
    \/ \E rate \in Rates, burst \in 1..MaxBurst : RateLimiter(rate, burst)
    \/ acquire

SpecLimiter == Init /\ [][NextLimiter]_vars

\* ----------------------------------------------------------- retry_async
\* One call of a function wrapped by retry_async (utils.py).  invoked is
\* what each invocation of the wrapped function did ("ok" or the type of
\* the exception it raised), slept the waits between the attempts.
MaxAttempts == 3
Delay == 1
Excs == {"ConnectionError", "KeyError"}
Configured == {{"ConnectionError"}, Excs}

\* 2 ** attempt
RECURSIVE Pow2(_)
Pow2(k) == IF k = 0 THEN 1 ELSE 2 * Pow2(k - 1)

\* The wrapper is called: range(max_attempts) is empty and the code after
\* the loop runs (the assert fails, or python -O has dropped it and
\* `raise None` is a TypeError), or the function is called and awaited.
retry_call(n, excs, backoff) ==
    /\ utils.retry = NoRetry
    /\ \E res \in {"AssertionError", "TypeError"} :
          utils' = [utils EXCEPT !.retry =
             [NoRetry EXCEPT !.max_attempts = n, !.exceptions = excs,
                             !.backoff = backoff,
                             !.pc = IF n = 0 THEN "done" ELSE "func",
                             !.result = IF n = 0 THEN res ELSE "none"]]
    /\ UNCHANGED limiterFrame

\* `except exceptions` catches any exception.
RetryableAny(r, out) == out # "ok"

\* `except exceptions` catches the configured types.
Retryable(r, out) == out \in r.exceptions

\* The awaited function returns or raises: the wrapper returns its result,
\* lets the exception through, or sleeps before the next attempt.
func_return(out) ==
    LET r == utils.retry
        r1 == [r EXCEPT !.invoked = Append(@, out)]
    IN  /\ r.pc = "func"
        /\ utils' = [utils EXCEPT !.retry =
              IF out = "ok"
              THEN [r1 EXCEPT !.pc = "done", !.result = "returned"]
              ELSE IF Retryable(r, out) /\ r.attempt # r.max_attempts - 1
              THEN [r1 EXCEPT !.pc = "sleep",
                              !.slept = Append(@,
                                  Delay * (IF r.backoff THEN Pow2(r.attempt)
                                           ELSE 1))]
              ELSE [r1 EXCEPT !.pc = "done", !.result = out]]
        /\ UNCHANGED limiterFrame

\* asyncio.sleep(wait_time) is over: the next attempt calls the function.
sleep_return ==
    /\ utils.retry.pc = "sleep"
    /\ utils' = [utils EXCEPT !.retry.pc = "func", !.retry.attempt = @ + 1]
    /\ UNCHANGED limiterFrame

NextRetry ==
    \/ \E n \in 0..MaxAttempts, excs \in Configured, backoff \in BOOLEAN :
          retry_call(n, excs, backoff)
    \/ \E out \in {"ok"} \cup Excs : func_return(out)
    \/ sleep_return

SpecRetry == Init /\ [][NextRetry]_vars

\* -------------------------------------------------------- OllamaInterface
\* The model interface of the server (model_interface.py) under one caller
\* that makes one call after the other, and the POST /model/reset route
\* (routes/api.py).  The watcher tasks run between the steps of the calls.
MaxModelCalls == 4

modelFrame == <<dictVars, data_channel, ice_candidates, engVars, chanVars,
                callVars, arrived, fanVars, metrics, close_tasks, utils,
                created_for, stateVars, busVars>>

\* No call is in progress.
Idle == \A t \in Slots : tasks[t].op = "idle"

\* A call of method m begins.
Begin(m) ==
    /\ Idle
    /\ Len(server.model.log) < MaxModelCalls

Logged(M, m) == [M EXCEPT !.log = Append(@, m)]

\* The call `op` in slot t (0: it has not been suspended yet) ends with res.
Done(t, op, res, M) ==
    /\ server' = [server EXCEPT !.model = M]
    /\ tasks' = IF t \in Slots THEN [tasks EXCEPT ![t] = NoTask] ELSE tasks
    /\ ret' = Ret(op, NoPeer, res)

\* The call `op` is suspended at the await `pc` (on task h, when it awaits
\* one); `used` keeps the length of the log when the call began.
Park(t, op, pc, h, M) ==
    /\ server' = [server EXCEPT !.model = M]
    /\ tasks' = IF t \in Slots
                THEN [tasks EXCEPT ![t] = [@ EXCEPT !.pc = pc, !.h = h]]
                ELSE [tasks EXCEPT ![FreeSlot] =
                        [Task(op, pc, NoPeer, h)
                            EXCEPT !.used = Len(server.model.log)]]
    /\ ret' = NoRet

\* A start_watching that does not test self._watching (what C40 must tell
\* from the code's).
start_watching_always(M) ==
    [M EXCEPT !.watching = TRUE, !.ntasks = @ + 1, !.watch_task = M.ntasks + 1,
              !.alive = @ \cup {M.ntasks + 1}]

\* start_watching(): a watcher task is created unless one is being watched.
start_watching(M) ==
    IF M.watching THEN M
    ELSE [M EXCEPT !.watching = TRUE, !.ntasks = @ + 1,
                   !.watch_task = M.ntasks + 1,
                   !.alive = @ \cup {M.ntasks + 1}]

\* stop_watching() up to `await self._watch_task`.
StopPrefix(M) ==
    [M EXCEPT !.watching = FALSE,
              !.cancelled = IF M.watch_task # 0 /\ M.watch_task \in M.alive
                            THEN @ \cup {M.watch_task} ELSE @]

\* Whether that await suspends: there is a task and it is not done.
StopAwaits(M) == M.watch_task # 0 /\ M.watch_task \in M.alive

\* `self._watch_task = None`
StopSuffix(M) == [M EXCEPT !.watch_task = 0]

\* What follows the disconnect() awaited by `op`: disconnect returns to its
\* caller; reset_model goes on to `await model.connect(request.app['config'])`,
\* a call with one argument more than connect takes: TypeError, caught by the
\* route's except and answered 500 (connect does not run).
AfterDisconnect(t, op, M) ==
    IF op = "reset_model"
    THEN Done(t, op, "500", M)
    ELSE Done(t, op, "ok", M)

\* disconnect() after stop_watching(): the session is closed when there is
\* one, then the interface is marked disconnected.
DisconnectRest(t, op, M) ==
    IF M.session # "none"
    THEN Park(t, op, "session.close", 0, M)
    ELSE AfterDisconnect(t, op, [M EXCEPT !.ready = FALSE,
                                          !.status = "disconnected"])

\* disconnect() from its beginning, called by `op`.
DisconnectBody(t, op, M) ==
    LET M1 == StopPrefix([Logged(M, "disconnect")
                             EXCEPT !.status = "disconnecting"])
    IN  IF StopAwaits(M1)
        THEN Park(t, op, "watch_task", M1.watch_task, M1)
        ELSE DisconnectRest(t, op, StopSuffix(M1))

\* connect() up to the request for /api/version (wrapper.start() has no
\* await of its own).
connect ==
    /\ Begin("connect")
    /\ Park(0, "connect", "version", 0,
            [Logged(server.model, "connect")
                EXCEPT !.is_connecting = TRUE, !.status = "connecting",
                       !.session = "open"])
    /\ UNCHANGED modelFrame

\* connect() ends: failed, or connected and watching.
ConnectEnd(t, M, ok) ==
    IF ok
    THEN Done(t, "connect", "True",
              start_watching([M EXCEPT !.ready = TRUE, !.status = "connected",
                                       !.is_connecting = FALSE]))
    ELSE Done(t, "connect", "False",
              [M EXCEPT !.status = "failed", !.is_connecting = FALSE])

\* The answer to /api/version (200, another status, or an exception), or
\* the result of _get_available_model (a model, or None).
connect_resume(t, ok) ==
    /\ tasks[t].op = "connect"
    /\ IF ~ok
       THEN ConnectEnd(t, server.model, FALSE)
       ELSE IF tasks[t].pc = "version" /\ ~server.model.model_name
       THEN Park(t, "connect", "models", 0, server.model)
       ELSE ConnectEnd(t, [server.model EXCEPT !.model_name = TRUE], TRUE)
    /\ UNCHANGED modelFrame

\* A direct call of start_watching().
start_watching_call ==
    /\ Begin("start_watching")
    /\ Done(0, "start_watching", "ok",
            start_watching(Logged(server.model, "start_watching")))
    /\ UNCHANGED modelFrame

\* A direct call of stop_watching().
stop_watching ==
    /\ Begin("stop_watching")
    /\ LET M1 == StopPrefix(Logged(server.model, "stop_watching"))
       IN  IF StopAwaits(M1)
           THEN Park(0, "stop_watching", "watch_task", M1.watch_task, M1)
           ELSE Done(0, "stop_watching", "ok", StopSuffix(M1))
    /\ UNCHANGED modelFrame

\* A direct call of disconnect().
disconnect ==
    /\ Begin("disconnect")
    /\ DisconnectBody(0, "disconnect", server.model)
    /\ UNCHANGED modelFrame

\* The awaited watcher task is done (its CancelledError is swallowed):
\* stop_watching goes on, and so does the disconnect that awaited it.
watch_task_done(t) ==
    /\ tasks[t].pc = "watch_task"
    /\ tasks[t].h \notin server.model.alive
    /\ IF tasks[t].op = "stop_watching"
       THEN Done(t, "stop_watching", "ok", StopSuffix(server.model))
       ELSE DisconnectRest(t, tasks[t].op, StopSuffix(server.model))
    /\ UNCHANGED modelFrame

\* session.close() returned, or raised.
session_close_return(t, ok) ==
    /\ tasks[t].pc = "session.close"
    /\ IF ok
       THEN AfterDisconnect(t, tasks[t].op,
                [server.model EXCEPT !.session = "closed", !.ready = FALSE,
                                     !.status = "disconnected"])
       ELSE Done(t, tasks[t].op,
                 IF tasks[t].op = "reset_model" THEN "500" ELSE "Exception",
                 server.model)
    /\ UNCHANGED modelFrame

\* _watch_ollama, one turn of its loop: a status or an error is put in the
\* output queue.
watch_ollama(w) ==
    /\ w \in server.model.alive
    /\ w \notin server.model.cancelled
    /\ server.model.watching
    /\ server.model.queued < MaxOutputs
    /\ server' = [server EXCEPT !.model.queued = @ + 1]
    /\ ret' = NoRet
    /\ UNCHANGED <<modelFrame, tasks>>

\* _watch_ollama ends: it was cancelled, or it finds self._watching False.
watch_ollama_exit(w) ==
    /\ w \in server.model.alive
    /\ w \in server.model.cancelled \/ ~server.model.watching
    /\ server' = [server EXCEPT !.model.alive = @ \ {w}]
    /\ ret' = NoRet
    /\ UNCHANGED <<modelFrame, tasks>>

\* POST /model/reset: refused with 400 when the interface is neither
\* connected nor connecting, else `await model.disconnect()`.
reset_model ==
    /\ Begin("reset_model")
    /\ LET M == server.model IN
       IF ~(M.ready /\ M.status = "connected") /\ ~M.is_connecting
       THEN Done(0, "reset_model", "400", M)
       ELSE DisconnectBody(0, "reset_model", M)
    /\ UNCHANGED modelFrame

NextModel ==
    \/ connect
    \/ \E t \in Slots, ok \in BOOLEAN : connect_resume(t, ok)
    \/ start_watching_call
    \/ stop_watching
    \/ disconnect
    \/ \E t \in Slots : watch_task_done(t)
    \/ \E t \in Slots, ok \in BOOLEAN : session_close_return(t, ok)
    \/ \E w \in 1..MaxModelCalls : watch_ollama(w)
    \/ \E w \in 1..MaxModelCalls : watch_ollama_exit(w)
    \/ reset_model

SpecModel == Init /\ [][NextModel]_vars

\* ---------------------------------------------------------- cancel_tasks
\* cancel_tasks(tasks) of utils.py, on a set of asyncio tasks that its
\* caller keeps (and may add to while cancel_tasks is suspended).
Tids == 1..3
DoneStates == {"returned", "raised", "cancelled"}

\* The caller creates a task and adds it to its set.
create_task(i) ==
    /\ utils.cancel.state[i] = "none"
    /\ utils.cancel.pc \in {"none", "gather"}
    /\ utils' = [utils EXCEPT !.cancel.state[i] = "pending",
                              !.cancel.set = @ \cup {i}]
    /\ UNCHANGED limiterFrame

\* A task ends: it returns or raises (after swallowing the CancelledError,
\* when it was asked to cancel), or it is cancelled as asked.
task_done(i, how) ==
    /\ utils.cancel.state[i] = "pending"
    /\ how = "cancelled" => i \in utils.cancel.asked
    /\ utils' = [utils EXCEPT !.cancel.state[i] = how]
    /\ UNCHANGED limiterFrame

\* cancel_tasks up to `await asyncio.gather(...)`, or to its return when the
\* set is empty: cancel() is called on every task that is not done.
cancel_tasks ==
    LET c == utils.cancel IN
    /\ c.pc = "none"
    /\ utils' = [utils EXCEPT !.cancel =
          [c EXCEPT !.pc = IF c.set = {} THEN "returned" ELSE "gather",
                    !.given = c.set,
                    !.asked = {i \in c.set : c.state[i] = "pending"}]]
    /\ UNCHANGED limiterFrame

\* A gather without return_exceptions: it raises the first exception of its
\* tasks as soon as there is one (what C39 must tell from the code's).
GatherFirst(c) ==
    IF \E i \in c.given : c.state[i] \in {"raised", "cancelled"} THEN "raise"
    ELSE IF \A i \in c.given : c.state[i] \in DoneStates THEN "ok"
    ELSE "wait"

\* asyncio.gather(*tasks, return_exceptions=True): it waits for every task
\* and returns their results, exceptions included.
Gather(c) ==
    IF \A i \in c.given : c.state[i] \in DoneStates THEN "ok" ELSE "wait"

\* The gather is over: tasks.clear(), and cancel_tasks returns; or what the
\* gather raised leaves cancel_tasks.
gather_return ==
    LET c == utils.cancel IN
    /\ c.pc = "gather"
    /\ Gather(c) # "wait"
    /\ utils' = [utils EXCEPT !.cancel =
          IF Gather(c) = "ok"
          THEN [c EXCEPT !.pc = "returned", !.set = {}]
          ELSE [c EXCEPT !.pc = "raised"]]
    /\ UNCHANGED limiterFrame

NextCancel ==
    \/ \E i \in Tids : create_task(i)
    \/ \E i \in Tids, how \in DoneStates : task_done(i, how)
    \/ cancel_tasks
    \/ gather_return

SpecCancel == Init /\ [][NextCancel]_vars

\* ------------------------------------------------------------------ claims

\* The events k with from < k <= to, in order.
Run(from, to) == [i \in 1..(to - from) |-> from + i]

\* Session h is in the registry.
Registered(h) == \E p \in PeerIds : peers[p] = h

\* How many times event k is in the sequence s.
Count(s, k) == Cardinality({i \in 1..Len(s) : s[i] = k})

\* C1: as long as no send has failed, the open channel of a registered
\* session has received exactly the events whose fanout started after it
\* became open, in publish order, and a channel that never became open has
\* received nothing.
C1_FanoutInOrder ==
    ~sendFailed =>
        /\ \A h \in Handles :
            Registered(h) /\ Open(h) =>
                received[data_channel[h]] = Run(openedAt[data_channel[h]], fanned)
        /\ \A c \in Handles :
            readyState[c] \in {"none", "connecting"} => received[c] = <<>>

\* C1: no send has failed, two events have been fanned out, and two
\* registered sessions have open channels: one has received both events in
\* order, the other at least one.
C1_Witness ==
    /\ ~sendFailed
    /\ fanned = 2
    /\ \E h1, h2 \in Handles :
        /\ h1 # h2
        /\ Registered(h1) /\ Open(h1) /\ Registered(h2) /\ Open(h2)
        /\ received[data_channel[h1]] = <<1, 2>>
        /\ Len(received[data_channel[h2]]) >= 1

\* The fanout of event k is over: its task has started and is gone.
FanoutDone(k) ==
    /\ k <= fanned
    /\ \A t \in Slots : tasks[t].ev # k
    /\ \A i \in 1..Len(queue) : queue[i].ev # k

\* C2: when the fanout of an event is over, every session that is registered
\* with a channel that was open before that fanout started has received the
\* event exactly once, whether or not the send to another session failed.
C2_FailureDoesNotSkip ==
    \A k \in 1..MaxEvents :
        FanoutDone(k) =>
            \A h \in Handles :
                Registered(h) /\ Open(h) /\ openedAt[data_channel[h]] < k
                    => Count(received[data_channel[h]], k) = 1

\* The step is a call of `op` for peer p: it returns at once or is suspended
\* at its first await.
Called(op, p) ==
    /\ ncalls' = ncalls + 1
    /\ \/ ret' # NoRet /\ ret'.op = op /\ ret'.peer = p
       \/ \E t \in Slots : /\ tasks[t].op = "idle"
                           /\ tasks'[t].op = op
                           /\ tasks'[t].peer = p

\* s is a prefix of r.
IsPrefix(s, r) == Len(s) <= Len(r) /\ \A i \in 1..Len(s) : s[i] = r[i]

\* The candidates passed to addIceCandidate of connection h that had been
\* buffered in session h, in the order they were passed.
AppliedFromBuffer(h) ==
    SelectSeq(added[h], LAMBDA c : \E i \in 1..Len(arrived[h]) : arrived[h][i] = c)

\* C3: the buffered candidates of a session are applied to its connection in
\* their arrival order, each at most once: what has been applied from the
\* buffer is always a prefix of what arrived.
C3_BufferedInArrivalOrder ==
    \A h \in Handles : IsPrefix(AppliedFromBuffer(h), arrived[h])

\* C4: a close_peer_connection call leaves the peer absent from the
\* registry, and for a peer that is absent when it is called it returns
\* normally at once, closes no connection or channel and changes nothing.
C4_CloseIdempotent ==
    [][\A p \in PeerIds :
         Called("close_peer_connection", p) =>
            /\ peers'[p] = 0
            /\ peers[p] = 0 =>
                /\ ret' = Ret("close_peer_connection", p, "ok")
                /\ UNCHANGED <<dictVars, data_channel, engVars, chanVars,
                               tasks>>]_vars

\* C4: a second close_peer_connection call for peer 1 has just returned
\* while the first one, which closed the peer's only connection, is still
\* suspended in connection.close().
C4_Witness ==
    /\ ret = Ret("close_peer_connection", 1, "ok")
    /\ \E t \in Slots : /\ tasks[t].op = "close_peer_connection"
                        /\ tasks[t].peer = 1
    /\ nconn = 1
    /\ closeCalls[1] = 1
    /\ peers[1] = 0

\* The session was created by create_connection and no remote description
\* has been given to its connection.
OfferSent(h) == data_channel[h] # 0 /\ setRemoteCalls[h] = 0

\* C5: a process_answer call with a well-formed answer for a registered
\* session that is not in OFFER_SENT fails with InvalidState and does not
\* call setRemoteDescription.
C5_AnswerOnlyWhenOfferSent ==
    [][\A p \in PeerIds :
         /\ Called("process_answer", p)
         /\ peers[p] # 0
         /\ ~OfferSent(peers[p])
         /\ ret'.res # "JSONDecodeError"
         => /\ ret' = Ret("process_answer", p, "InvalidState")
            /\ setRemoteCalls' = setRemoteCalls]_vars

\* C6: a process_answer call for a peer that is not in the registry fails with
\* NotFound (the ValueError of the absent peer), creates no session and calls
\* nothing on any connection or channel.
C6_AnswerUnknownPeer ==
    [][\A p \in PeerIds :
         Called("process_answer", p) /\ peers[p] = 0 =>
            /\ ret' = Ret("process_answer", p, "NotFound")
            /\ UNCHANGED <<dictVars, data_channel, ice_candidates, engVars,
                           chanVars, tasks>>]_vars

\* C6: process_answer has just failed with NotFound for a peer that is absent
\* while another session exists.
C6_Witness ==
    /\ ret.op = "process_answer"
    /\ ret.res = "NotFound"
    /\ peers[ret.peer] = 0
    /\ Live # {}

\* C7: a create_connection call for a peer that has a session in the registry
\* fails with AlreadyExists and leaves the registry as it is.
C7_CreateFailsWhenExists ==
    [][\A p \in PeerIds :
         Called("create_connection", p) /\ peers[p] # 0 =>
            /\ ret' = Ret("create_connection", p, "AlreadyExists")
            /\ UNCHANGED <<dictVars, data_channel>>]_vars

\* C8: a process_ice_candidate call for a peer that is not in the registry
\* returns normally, so that the endpoint answers 200; it creates no session,
\* buffers nothing and passes nothing to any connection.
C8_CandidateUnknownPeer ==
    [][\A p \in PeerIds :
         Called("process_ice_candidate", p) /\ peers[p] = 0 =>
            /\ ret' = Ret("process_ice_candidate", p, "returned")
            /\ ice_candidate_response(ret'.res) = 200
            /\ UNCHANGED <<dictVars, data_channel, ice_candidates, engVars,
                           chanVars, arrived, tasks>>]_vars

\* C8: process_ice_candidate has just returned for a peer that is absent,
\* another session exists, and no candidate was ever buffered or passed to a
\* connection.
C8_Witness ==
    /\ ret = Ret("process_ice_candidate", ret.peer, "returned")
    /\ ret.peer # NoPeer
    /\ peers[ret.peer] = 0
    /\ Live # {}
    /\ \A h \in Handles : added[h] = <<>> /\ arrived[h] = <<>>

\* C9: when the _safe_handle task of a handler that raised ends, the error
\* event built from the event, the reason and the handler has been given to
\* every error handler that was registered when the handler raised and still
\* is; and when emit stops waiting it returns normally and every handler that
\* was subscribed to the event's type has been invoked with the event.
C9_HandlerFailureIsolated ==
    [][/\ \A t \in Slots :
            tasks[t].pc = "error_handler" /\ tasks'[t].op = "idle" =>
                \A r \in raised :
                    r.ev = tasks[t].ev /\ r.hd = tasks[t].hd =>
                        \A g \in r.registered \cap error_handlers :
                            <<ErrorEvent(r.ev, r.hd, r.reason), g>>
                                \in delivered
       /\ \A k \in 1..Len(emits) :
            emits[k].status = "waiting" /\ emits'[k].status # "waiting" =>
                /\ emits'[k].status = "returned"
                /\ \A hd \in emits[k].handlers : <<k, hd>> \in invoked]_vars

\* C10: the bus stays stopped once stopped; an emit call made while it is
\* stopped fails with NotRunning, creates no task and invokes no handler; and
\* no handler is ever invoked with the event of an emit call that failed so.
C10_EmitAfterStop ==
    /\ [][~running =>
            /\ ~running'
            /\ Len(emits') > Len(emits) =>
                /\ emits'[Len(emits')].status = "NotRunning"
                /\ queue' = queue
                /\ invoked' = invoked]_vars
    /\ [](\A k \in 1..Len(emits) :
            emits[k].status = "NotRunning" =>
                /\ \A hd \in ListenerFns : <<k, hd>> \notin invoked
                /\ ~Pending(k))

\* C10: the bus is stopped and an emit call has failed with NotRunning for a
\* type that has a handler subscribed.
C10_Witness ==
    /\ ~running
    /\ \E k \in 1..Len(emits) :
        /\ emits[k].status = "NotRunning"
        /\ listeners[emits[k].type] # {}

\* A _safe_handle task of event k is still queued or suspended.
TaskLeft(k) ==
    \/ \E i \in 1..Len(queue) : queue[i].ev = k
    \/ \E t \in Slots : tasks[t].op # "idle" /\ tasks[t].ev = k

\* C11: emit stops waiting only when every handler that was subscribed to the
\* event's type has been invoked with the event and none of their tasks is
\* left, queued or suspended; and a task is queued only while emit waits.
C11_EmitWaitsForAll ==
    /\ [][\A k \in 1..Len(emits) :
            emits[k].status = "waiting" /\ emits'[k].status # "waiting" =>
                /\ \A hd \in emits[k].handlers : <<k, hd>> \in invoked
                /\ ~TaskLeft(k)]_vars
    /\ [](\A k \in 1..Len(emits) :
            TaskLeft(k) => emits[k].status = "waiting")

\* C11: of two handlers of one event the second has just completed while the
\* first, started before it, is still suspended in its handler, and emit is
\* still waiting.
C11_Witness ==
    /\ ret = Ret("safe_handle", ret.peer, "ok")
    /\ \E t \in Slots :
        /\ tasks[t].op = "safe_handle"
        /\ tasks[t].pc = "handler"
        /\ tasks[t].hd # ret.peer
        /\ emits[tasks[t].ev].status = "waiting"
        /\ emits[tasks[t].ev].handlers = {tasks[t].hd, ret.peer}
        /\ <<tasks[t].ev, ret.peer>> \in invoked

\* The handlers of the tasks a step has added to the queue.
Queued == {queue'[i].hd : i \in (Len(queue) + 1)..Len(queue')}

\* C12: an emit call on a running bus creates one task for each handler
\* subscribed to the event's type at that time and for no other handler; a
\* handler is invoked with an event only by the start of such a task; so a
\* handler removed before the emit call, or subscribed to another type only,
\* is never invoked with the event.
C12_ExactlySubscribed ==
    /\ [][Len(emits') > Len(emits) /\ running =>
            LET k == Len(emits') IN
            /\ Len(queue') >= Len(queue)
            /\ Queued = listeners[emits'[k].type]
            /\ Len(queue') - Len(queue) = Cardinality(Queued)
            /\ \A i \in (Len(queue) + 1)..Len(queue') : queue'[i].ev = k]_vars
    /\ [][invoked' \subseteq invoked \/ queue = <<>> \/
            invoked' \ invoked = {<<Head(queue).ev, Head(queue).hd>>}]_vars
    /\ [][\A k \in 1..Len(emits) :
            emits[k].status = "waiting" /\ emits'[k].status = "returned" =>
                {x[2] : x \in {y \in invoked : y[1] = k}}
                    = emits[k].handlers]_vars

\* C12: an event of type t1 is in flight and h2, the one handler subscribed to
\* t1, is the one handler invoked with it, while h1 is subscribed to t2 only,
\* after four subscription changes.
C12_Witness ==
    /\ Len(emits) = 1
    /\ emits[1].type = "t1"
    /\ emits[1].status = "waiting"
    /\ invoked = {<<1, "h2">>}
    /\ queue = <<>>
    /\ listeners["t1"] = {"h2"}
    /\ listeners["t2"] = {"h1"}
    /\ nsubs = 4

\* C13: an emit call of a model_output event on the running bus never raises:
\* it waits, then returns, whatever a send, a teardown or the registry did
\* during the fanout.
C13_ProducerSeesNoFailure ==
    /\ [](\A k \in 1..Len(emits) : emits[k].status \in {"waiting", "returned"})
    /\ [][\A k \in 1..Len(emits) :
            emits'[k].status # emits[k].status =>
                emits[k].status = "waiting" /\ emits'[k].status = "returned"]_vars

\* C13: the emit call of the one event published has returned, and a send
\* failed during its fanout.
C13_Witness ==
    /\ Len(emits) = 1
    /\ emits[1].status = "returned"
    /\ sendFailed
    /\ fanned = 1


Callbacks == {"on_connectionstatechange", "on_iceconnectionstatechange"}

\* The callback that the report on connection h started ends in this step,
\* and h was in the registry when the engine made the report.
ReportHandled(h) ==
    \/ /\ ret'.op = "on_connectionstatechange"
       /\ connectionState'[h] # connectionState[h]
       /\ peers[created_for[h]] = h
    \/ \E t \in Slots : /\ tasks[t].op \in Callbacks
                        /\ tasks[t].owner = h
                        /\ tasks[t].h = h
                        /\ tasks'[t].op = "idle"

\* C14: when the engine has reported, for a session in the registry, that its
\* connection failed or closed or that its ICE connection failed, and the
\* callback has run to its end, the session is out of the registry and its
\* connection is closed: the engine reported it closed, or its close has been
\* called.
C14_ReportTearsDown ==
    [][\A h \in Handles :
         ReportHandled(h) => /\ ~Registered(h)'
                             /\ \/ connectionState'[h] = "closed"
                                \/ closeCalls'[h] >= 1]_vars


\* The steps of process_offer that may follow one another.
OfferOrder ==
    {<<"setRemoteDescription", "addIceCandidate">>,
     <<"setRemoteDescription", "createAnswer">>,
     <<"addIceCandidate", "addIceCandidate">>,
     <<"addIceCandidate", "createAnswer">>,
     <<"createAnswer", "setLocalDescription">>}

\* C15: a process_offer call for a peer without a session creates one session
\* and stores it under that id; every process_offer sets the remote
\* description, then applies the buffered candidates, then creates the answer,
\* then sets it as local description; and when it returns the answer, the
\* session it negotiated is in the registry under the peer's id.
C15_OfferStepsInOrder ==
    /\ [][\A p \in PeerIds :
            Called("process_offer", p) /\ peers[p] = 0 =>
               /\ nconn' = nconn + 1
               /\ peers' = [peers EXCEPT ![p] = nconn + 1]]_vars
    /\ [][\A t \in Slots :
            tasks[t].op = "process_offer" /\ tasks'[t] # tasks[t] =>
               IF tasks'[t].op = "idle"
               THEN ret'.res = "answer" =>
                       /\ tasks[t].pc = "setLocalDescription"
                       /\ remoteDescription[tasks[t].h]
                       /\ localDescription'[tasks[t].h] = "answer"
                       /\ peers'[tasks[t].peer] = tasks[t].h
               ELSE <<tasks[t].pc, tasks'[t].pc>> \in OfferOrder]_vars


RECURSIVE SizeOf(_)
\* The bytes of the messages made from the events of s.
SizeOf(s) == IF s = <<>> THEN 0 ELSE Size(Head(s)) + SizeOf(Tail(s))

\* What the channel of session s was sent with success.
SentOn(s) == IF data_channel[s] = 0 THEN <<>> ELSE received[data_channel[s]]

Counters == {"messages_sent", "messages_received", "bytes_sent",
             "bytes_received"}

\* C17: for every session, messages_sent is the number of sends on its channel
\* that succeeded and bytes_sent the sum of their lengths, so that a send that
\* raised counted for nothing; and no step makes one of the four counters of
\* a session smaller.
C17_SentCountsSuccesses ==
    /\ [](\A s \in Handles :
            /\ metrics[s].messages_sent = Len(SentOn(s))
            /\ metrics[s].bytes_sent = SizeOf(SentOn(s)))
    /\ [][\A s \in Handles, f \in Counters :
            metrics'[s][f] >= metrics[s][f]]_vars

\* C17: a fanout in which the send to the second session raised has sent its
\* message to the first, whose counters have it; a message was received from
\* a consumer.
C17_Witness ==
    /\ sendFailed
    /\ nconn = 2
    /\ ~Registered(2)
    /\ SentOn(1) = <<1>>
    /\ metrics[1].messages_sent = 1
    /\ metrics[1].bytes_sent = Size(1)
    /\ metrics[2].messages_sent = 0
    /\ metrics[1].messages_received = 1


\* C18: a text message that is not JSON changes the messages_received of no
\* session and puts no event on the bus.
C18_InvalidJsonNotCounted ==
    [][ret'.op = "on_message" /\ ret'.res = "JSONDecodeError" =>
          /\ \A s \in Handles :
                metrics'[s].messages_received = metrics[s].messages_received
          /\ emits' = emits
          /\ queue' = queue]_vars


\* C19: when close_all_connections returns, every session that was in the
\* registry when it was called is out of the registry with its connection
\* closed (the engine reported it closed, or its close has been called), and
\* the registry is empty when no other call was made in between.
C19_CloseAllClosesEvery ==
    [][ret'.op = "close_all_connections" =>
          /\ \A i \in 1..Len(close_tasks) :
                /\ \A p \in PeerIds : peers'[p] # close_tasks[i].h
                /\ \/ connectionState'[close_tasks[i].h] = "closed"
                   \/ closeCalls'[close_tasks[i].h] >= 1
          /\ (\A i \in 1..Len(close_tasks) : close_tasks[i].calls = ncalls)
                => \A p \in PeerIds : peers'[p] = 0]_vars


\* A shutdown coroutine begins in this step.
ShutdownBegins(id) ==
    /\ server.sd[id] \in {"idle", "created"}
    /\ server'.sd[id] \notin {"idle", "created", "cancelled"}

\* C20: when one run of the server is over, model_interface.disconnect() and
\* webrtc_manager.disconnect() have each been called exactly once and running
\* is false; neither is ever called twice; and a shutdown that begins while
\* the server is not running disconnects nothing, cancels nothing and removes
\* no listener.
C20_DisconnectedOnce ==
    /\ [](server.loop = "closed" =>
             /\ server.model_disconnects = 1
             /\ server.webrtc_disconnects = 1
             /\ ~server.running)
    /\ [](server.model_disconnects <= 1 /\ server.webrtc_disconnects <= 1)
    /\ [][\A id \in ShutdownIds :
            ShutdownBegins(id) /\ ~server.running =>
               /\ server'.sd[id] = "skipped"
               /\ server'.model_disconnects = server.model_disconnects
               /\ server'.webrtc_disconnects = server.webrtc_disconnects
               /\ server'.watcher = server.watcher
               /\ ~server'.running
               /\ listeners' = listeners]_vars


\* C21: a shutdown that begins while the server runs cancels the watcher
\* task when there is one; a step of it that raises an Exception is followed by the next step,
\* so that after a raising model_interface.disconnect() the call of
\* webrtc_manager.disconnect() is made; shutdown never raises; and when it
\* returns both disconnects have been called and no listener is left.
C21_ShutdownRunsEveryStep ==
    /\ [][\A id \in ShutdownIds :
            ShutdownBegins(id) /\ server.running =>
               server'.watcher # "running"]_vars
    /\ [][\A id \in ShutdownIds :
            /\ server.sd[id] = "model_interface.disconnect"
            /\ server'.sd[id] \notin {"model_interface.disconnect",
                                      "cancelled"}
            => /\ server'.sd[id] = "webrtc_manager.disconnect"
               /\ server'.webrtc_disconnects = server.webrtc_disconnects + 1
         ]_vars
    /\ [](\A id \in ShutdownIds : server.sd[id] # "raised")
    /\ [][\A id \in ShutdownIds :
            server.sd[id] # "done" /\ server'.sd[id] = "done" =>
               /\ server.sd[id] = "webrtc_manager.disconnect"
               /\ server'.model_disconnects = 1
               /\ server'.webrtc_disconnects = 1
               /\ \A ty \in EventTypes : listeners'[ty] = {}]_vars

\* C21: a shutdown has returned after model_interface.disconnect() raised;
\* the watcher task was cancelled, webrtc_manager.disconnect() was called
\* and the listeners are removed.
C21_Witness ==
    \E id \in ShutdownIds :
        /\ server.sd[id] = "done"
        /\ "model_interface.disconnect" \in server.logged
        /\ server.watcher = "done"
        /\ server.runner
        /\ server.webrtc_disconnects = 1
        /\ \A ty \in EventTypes : listeners[ty] = {}


\* The step handles the request whose body is server.request.
Handled ==
    /\ ncalls' = ncalls + 1
    /\ \/ ret'.op = "handle_offer"
       \/ \E p \in PeerIds : Called("process_offer", p)

\* The route answered res without calling the manager.
Refused(res) ==
    /\ ret' = Ret("handle_offer", NoPeer, res)
    /\ offer_response(res) = 400
    /\ UNCHANGED <<dictVars, data_channel, ice_candidates, engVars, created_for,
                   tasks>>

C23_ValidJsonPublished ==
    [][\A s \in Handles :
         /\ metrics'[s].messages_received # metrics[s].messages_received
         /\ ret'.res # "JSONDecodeError"
         => /\ metrics'[s].messages_received =
                  metrics[s].messages_received + 1
            /\ Len(emits') = Len(emits) + 1
            /\ emits'[Len(emits')].peer = created_for[s]
            /\ emits'[Len(emits')].type \in
                  {"consumer_message", "model_output"}]_vars

\* The calls of the limiter that returned True at time t.
GrantedAt(t) ==
    {k \in DOMAIN utils.limiter.calls :
        utils.limiter.calls[k].at = t /\ utils.limiter.calls[k].ok}

\* C24: of the acquires made on a new limiter while no time passes, the
\* first burst ones are granted and every further one is refused (so with
\* burst 1 exactly one of them succeeds); no instant sees more than burst
\* grants; and the token count stays within 0..burst.
C24_BurstThenRefuse ==
    LET l == utils.limiter
    IN  /\ l.tokens >= 0
        /\ l.tokens <= l.burst * TokenUnit
        /\ \A k \in DOMAIN l.calls :
              l.calls[k].at = l.created => (l.calls[k].ok <=> k <= l.burst)
        /\ \A t \in 0..utils.now : Cardinality(GrantedAt(t)) <= l.burst

\* A limiter of burst 1 was asked three times at once: one call succeeded.
C24_Witness ==
    /\ utils.limiter.burst = 1
    /\ Len(utils.limiter.calls) >= 3
    /\ \A k \in 1..3 : utils.limiter.calls[k].at = utils.limiter.created
    /\ Cardinality(GrantedAt(utils.limiter.created)) = 1

\* C25: a function wrapped by retry_async(max_attempts = n) is invoked at
\* most n times in one call; every invocation but the last raised a
\* configured exception; the call ends with the result of the first
\* success, with an exception of a type that is not configured as soon as
\* it is raised, or with the last exception after n failures.
C25_RetryAtMostN ==
    LET r == utils.retry
        k == Len(r.invoked)
    IN  /\ k <= r.max_attempts
        /\ \A i \in 1..(k - 1) : r.invoked[i] \in r.exceptions
        /\ (r.pc = "done" /\ r.max_attempts > 0) =>
              /\ k >= 1
              /\ r.result = (IF r.invoked[k] = "ok" THEN "returned"
                             ELSE r.invoked[k])
              /\ r.invoked[k] \in r.exceptions => k = r.max_attempts
        /\ r.pc \in {"func", "sleep"} =>
              /\ \A i \in 1..k : r.invoked[i] \in r.exceptions
              /\ k < r.max_attempts

\* Three attempts failed with the configured exception, which was re-raised.
C25_Witness ==
    /\ utils.retry.pc = "done"
    /\ utils.retry.max_attempts = 3
    /\ utils.retry.exceptions = {"ConnectionError"}
    /\ utils.retry.invoked =
          <<"ConnectionError", "ConnectionError", "ConnectionError">>
    /\ utils.retry.result = "ConnectionError"

\* The calls of the manager that signal for one session.
SignalingOps == {"create_connection", "process_offer", "process_answer",
                 "process_ice_candidate", "close_peer_connection"}

\* C26: no two signaling calls for the same peer id are in progress at once:
\* while one is suspended at an await, no other call for that peer has begun.
C26_SignalingSerialized ==
    \A t \in Slots, u \in Slots :
        (/\ t # u
         /\ tasks[t].op \in SignalingOps
         /\ tasks[u].op \in SignalingOps) => tasks[t].peer # tasks[u].peer

\* C27: when process_offer or process_answer ends because an engine call
\* raised, the session of its peer is torn down: it is no longer registered
\* and the connection it worked on has been closed.
C27_RejectionTearsDown ==
    [][\A t \in Slots :
          (/\ tasks[t].op \in {"process_offer", "process_answer"}
           /\ ret' = Ret(tasks[t].op, tasks[t].peer, "EngineError"))
          => (/\ peers'[tasks[t].peer] = 0
              /\ closeCalls'[tasks[t].h] >= 1)]_vars

\* Connection h was removed from the registry by close_peer_connection (the
\* only caller of its close() besides its own ICE callback).
Removed(h) == closeCalls[h] >= 1 /\ iceConnectionState[h] = "new"

\* A callback of connection h runs in this step: the engine reports a new
\* connection state of h, or the ICE callback of h goes on after pc.close().
LateCallback(h) ==
    \/ connectionState'[h] # connectionState[h]
    \/ \E t \in Slots : /\ tasks[t].op = "on_iceconnectionstatechange"
                        /\ tasks[t].owner = h
                        /\ tasks'[t] # tasks[t]

\* C28: once a session was removed and its peer id is registered again for
\* a new session, a callback of the old connection neither removes the new
\* session nor closes its connection.
C28_LateCallbackSparesNew ==
    [][\A h \in Handles :
          LET p == created_for[h] IN
          (/\ p # NoPeer
           /\ Removed(h)
           /\ peers[p] \notin {0, h}
           /\ LateCallback(h))
          => (/\ peers'[p] = peers[p]
              /\ closeCalls'[peers[p]] = closeCalls[peers[p]])]_vars

\* C29: when a process_offer or process_answer call that set the remote
\* description of its connection returns or raises, and its session is still
\* registered, no candidate is left in the buffer of the session.
C29_BufferEmptyAfterRemote ==
    [][\A t \in Slots : \A res \in {"ok", "EngineError", "RuntimeError",
                                    "KeyError"} :
          (/\ tasks[t].op \in {"process_offer", "process_answer"}
           /\ ret' = Ret(tasks[t].op, tasks[t].peer, res)
           /\ tasks'[t] = NoTask
           /\ ~(tasks[t].pc = "setRemoteDescription" /\ res = "EngineError")
           /\ remoteDescription'[tasks[t].h]
           /\ peers'[tasks[t].peer] = tasks[t].h)
          => ice_candidates'[tasks[t].h] = {}]_vars

\* C30: the fanout does not wait for the teardown of a peer whose send
\* failed: while that close_peer_connection is in progress, every session
\* after it in the dict that has an open channel has been sent the event.
C30_FanoutDoesNotWait ==
    \A t \in Slots :
        (tasks[t].op = "handle_model_output" /\ tasks[t].pc = "close") =>
            \A i \in (tasks[t].pos + 1)..Len(entries) :
                (entries[i] # NoPeer /\ Open(peers[entries[i]])) =>
                    \E n \in DOMAIN received[data_channel[peers[entries[i]]]] :
                        received[data_channel[peers[entries[i]]]][n]
                            = tasks[t].ev

\* C31: every output the watcher takes from get_outputs is published on the
\* bus in the same step, as one more model_output event.
C31_OutputsPublished ==
    [][Len(server'.outputs) > Len(server.outputs)
         => (/\ Len(emits') = Len(emits) + 1
             /\ emits'[Len(emits')].type = "model_output")]_vars

\* C32: only producer output is fanned out: no event that on_message built
\* from a consumer's message (its metadata names the consumer's peer id) is
\* ever written to a session's channel.
C32_OnlyProducerFannedOut ==
    \A c \in Handles : \A n \in DOMAIN received[c] :
        emits[received[c][n]].peer = NoPeer

\* C33: a step that takes a session out of the registry has called close()
\* on the session's connection, whatever closing its data channel did.
C33_RemovalClosesHandle ==
    [][\A p \in PeerIds :
          (peers[p] # 0 /\ peers'[p] = 0)
          => closeCalls'[peers[p]] = closeCalls[peers[p]] + 1]_vars

\* C34: close() is called at most once on the connection of a session, over
\* every teardown path and every interleaving of them.
C34_ClosedAtMostOnce == \A h \in Handles : closeCalls[h] <= 1

\* C35: a process_offer call that fails because the offer cannot be parsed
\* leaves the registry as it was before the call.
C35_BadOfferLeavesRegistry ==
    [][\A p \in PeerIds :
          (/\ Called("process_offer", p)
           /\ ret' = Ret("process_offer", p, "JSONDecodeError"))
          => (peers' = peers /\ entries' = entries)]_vars

\* The calls of the limiter that returned True.
Granted == {k \in DOMAIN utils.limiter.calls : utils.limiter.calls[k].ok}

\* C36: over the time elapsed since the limiter was made, the number of
\* acquires granted is at most burst + rate * elapsed (here in TokenUnit-ths
\* of a token).
C36_GrantsWithinRate ==
    utils.limiter # NoLimiter =>
        Cardinality(Granted) * TokenUnit
            <= utils.limiter.burst * TokenUnit
               + utils.limiter.rate * (utils.now - utils.limiter.created)

C38_ResetDisconnectsThenConnects ==
    [][/\ (Idle /\ ret' = Ret("reset_model", NoPeer, "400")
              /\ server'.model.log # server.model.log) => FALSE
       /\ \A t \in Slots :
            (/\ tasks[t].op = "reset_model"
             /\ tasks'[t] = NoTask) =>
                SubSeq(server'.model.log, tasks[t].used + 1,
                       Len(server'.model.log)) = <<"disconnect", "connect">>
      ]_vars

\* C40: whatever calls of connect, start_watching, stop_watching and
\* disconnect were made one after the other, at most one watcher task is
\* alive; and when disconnect returns no watcher task is alive, ready is
\* false and the connection status is "disconnected".
C40_OneWatcher ==
    /\ Cardinality(server.model.alive) <= 1
    /\ ret = Ret("disconnect", NoPeer, "ok") =>
          /\ server.model.alive = {}
          /\ ~server.model.ready
          /\ server.model.status = "disconnected"

\* disconnect has returned for an interface that had been connected and
\* watching: a watcher task was created, and it is done.
C40_Witness ==
    /\ ret = Ret("disconnect", NoPeer, "ok")
    /\ server.model.ntasks >= 1
    /\ server.model.alive = {}
    /\ server.model.session = "closed"

\* C39: when cancel_tasks has returned, every task that was in the set when
\* it was called is done and the set is empty; nothing a task raised ever
\* leaves cancel_tasks; and a call on an empty set returns at once.
C39_CancelTasks ==
    LET c == utils.cancel IN
    /\ c.pc = "returned" =>
          /\ \A i \in c.given : c.state[i] \in DoneStates
          /\ c.set = {}
    /\ c.pc # "raised"
    /\ c.pc = "gather" => c.given # {}

\* cancel_tasks has returned for a set that held a task that raised, a task
\* that was cancelled and a task that had already returned.
C39_Witness ==
    /\ utils.cancel.pc = "returned"
    /\ \E i \in utils.cancel.given : utils.cancel.state[i] = "raised"
    /\ \E i \in utils.cancel.given : utils.cancel.state[i] = "cancelled"
    /\ \E i \in utils.cancel.given : utils.cancel.state[i] = "returned"

====
